---- MODULE Spec2Model ----
(***************************************************************************)
(* StudySync AI: the chunked ingestion -> generation -> incremental        *)
(* persistence pipeline.                                                   *)
(*                                                                         *)
(*   src/src/utils/storage.ts          dual-store persistence              *)
(*   src/src/context/StudyContext.tsx  reducer, load and save effects      *)
(*   src/unnamed/part_003              FileUpload.processFile (the run)    *)
(*   src/src/utils/aiAdapter.ts        processChunk (orchestrator)         *)
(*   src/src/utils/aiProcessor.ts      processChunk used by FileUpload     *)
(*   src/src/utils/progress.ts         the chunker (text chunking utility) *)
(*   src/src/components/AIProviderStatus.tsx  provider status and switch   *)
(*                                                                         *)
(* Specifications:                                                         *)
(*   SpecStore    the storage API, one call at a time, with store failures *)
(*   SpecReducer  studyReducer applied to arbitrary actions                *)
(*   SpecChunk    aiAdapter.processChunk, one call, step by step           *)
(*   Spec         the application: run, effects, stores, reload            *)
(*   SpecChunker  chunkText and estimateChunkCount on bounded texts        *)
(*   SpecParser   parseAIResponse on responses of every shape              *)
(*   SpecMcq      parseAIResponse's mcqs on entries of every shape         *)
(*   SpecProvider the provider selection and its availability probe        *)
(*   SpecChunkLoop  chunkText's loop, pass by pass, for small chunk sizes  *)
(*   SpecStream   callOllama reading a streamed response                   *)
(*   SpecConfig   the provider configuration and the keys it sends         *)
(***************************************************************************)
EXTENDS Integers, Sequences, FiniteSets, TLC

VARIABLES
  studyBanks,        \* StudyState.studyBanks: sequence of banks
  activeBank,        \* StudyState.activeBank: a bank or Null
  processingStatus,  \* StudyState.processingStatus
  isHydrated,        \* StudyState.isHydrated
  idb,               \* the IndexedDB object store 'studyBanks' (keyPath id): a set of banks
  ls,                \* localStorage[STORAGE_KEY], parsed: a sequence of banks
  lastCall,          \* SpecStore: the storage call that has just completed
  prevCall,          \* SpecStore: the call completed right before lastCall
  ret,               \* SpecStore: what lastCall returned
  history,           \* SpecReducer: per bank id, the bank as it entered memory and
                     \* the appendChunkResults calls applied to it since
  chunkCall,         \* SpecChunk: the processChunk call in progress
  pending,           \* Spec: storage calls issued and not completed, oldest first
  run,               \* Spec: where FileUpload.processFile stands
  timer,             \* Spec: the 300 ms save timer of StudyProvider: whether it is
                     \* armed, and the studyBanks its callback closes over
  load,              \* Spec: where StudyProvider's loadAsync stands
  issued,            \* Spec: the bank ids generateId has returned
  atReload,          \* Spec: the durable copy of the run's bank when the page
                     \* was reloaded during the run; Null when there is none
  chunker,           \* SpecChunker: a text, the options, and what chunkText and
                     \* estimateChunkCount returned for them
  parser,            \* SpecParser: a response and what parseAIResponse made of it
  provider,          \* SpecProvider: the AI provider configuration and its status
  stream,            \* SpecStream: a streamed callOllama call
  config             \* SpecConfig: currentConfig, the stored settings and the
                     \* key the last direct generate call sent

memVars == <<studyBanks, activeBank, processingStatus, isHydrated>>
storeVars == <<idb, ls>>
callVars == <<lastCall, prevCall, ret>>

appVars ==
  <<pending, run, timer, load, issued, atReload, chunker, parser, provider, stream,
    config>>

vars == <<memVars, storeVars, callVars, history, chunkCall, appVars>>

\* What each specification leaves as it is.
notStore == <<memVars, history, chunkCall, appVars>>
notReducer == <<storeVars, callVars, chunkCall, appVars>>
notChunk == <<memVars, storeVars, callVars, history, appVars>>
notApp == <<callVars, history, chunkCall, chunker, parser, provider, stream, config>>
coreVars ==
  <<memVars, storeVars, callVars, history, chunkCall,
    pending, run, timer, load, issued, atReload>>
notChunker == <<coreVars, parser, provider, stream, config>>
notParser == <<coreVars, chunker, provider, stream, config>>
notProvider == <<coreVars, chunker, parser, stream, config>>
notStream == <<coreVars, chunker, parser, provider, config>>
notConfig == <<coreVars, chunker, parser, provider, stream>>

Undefined == "undefined"

(***************************************************************************)
(* Bounds                                                                  *)
(***************************************************************************)
\* Distinct bank ids (the keys of the object store), ordered as keys are.
NumIds == 2

BankIds == 1..NumIds

\* The largest totalChunks of a bank; chunk indices run over 0..MaxChunks, so
\* that an index equal to a bank's totalChunks (one past its last chunk) occurs.
MaxChunks == 2

\* SpecReducer: the number of appendChunkResults calls on record at a time,
\* enough to fill the largest bank.
MaxAppends == MaxChunks

(***************************************************************************)
(* Data                                                                    *)
(***************************************************************************)
\* A study item as stored in a bank: the generated content plus chunkIndex.
\* (The random item id of generateId() is not modelled: nothing reads it.)
Item(content, chunkIndex) == [content |-> content, chunkIndex |-> chunkIndex]

EmptyResult == [flashcards |-> <<>>, mcqs |-> <<>>, fillBlanks |-> <<>>, shortAnswers |-> <<>>]

\* bank.rawText is an optional property: Absent when the object has no such
\* property, Undefined when it has it with the value undefined.
Absent == "absent"

\* createStudyBank's record. fileName and createdAt are carried by the id.
NewBank(id, totalChunks) ==
  [id |-> id, totalChunks |-> totalChunks, processedChunks |-> 0,
   flashcards |-> <<>>, mcqs |-> <<>>, fillBlanks |-> <<>>, shortAnswers |-> <<>>,
   isProcessing |-> TRUE, rawText |-> Absent]

\* null where a bank is expected (activeBank): a bank whose id no bank has.
Null == [NewBank(0, 0) EXCEPT !.isProcessing = FALSE]

\* Reading bank.rawText: a missing property reads as undefined.
RawTextOf(b) == IF b.rawText = Absent THEN Undefined ELSE b.rawText

WithRawText(b, t) == [b EXCEPT !.rawText = t]

\* JSON.parse(JSON.stringify(bank)): a property whose value is undefined is
\* dropped by stringify; strings, numbers, booleans and arrays survive.
JsonBank(b) == IF b.rawText = Undefined THEN [b EXCEPT !.rawText = Absent] ELSE b

JsonRoundTrip(banks) == [i \in 1..Len(banks) |-> JsonBank(banks[i])]

\* banks.map(bank => ({...bank, rawText: undefined}))
MinimalBanks(banks) == [i \in 1..Len(banks) |-> WithRawText(banks[i], Undefined)]

SeqToSet(s) == {s[i] : i \in 1..Len(s)}

IdsOf(banks) == {banks[i].id : i \in 1..Len(banks)}

\* banks.findIndex(b => b.id === id), 1-based; 0 when there is none.
FindIndex(banks, id) ==
  IF \E i \in 1..Len(banks) : banks[i].id = id
  THEN CHOOSE i \in 1..Len(banks) : banks[i].id = id /\ \A j \in 1..(i-1) : banks[j].id # id
  ELSE 0

\* banks.filter(b => b.id !== id)
RECURSIVE FilterOutId(_, _)
FilterOutId(banks, id) ==
  IF banks = <<>> THEN <<>>
  ELSE (IF Head(banks).id = id THEN <<>> ELSE <<Head(banks)>>) \o FilterOutId(Tail(banks), id)

\* index >= 0 ? banks[index] = bank : banks.push(bank)
Upsert(banks, bank) ==
  LET i == FindIndex(banks, bank.id)
  IN IF i > 0 THEN [banks EXCEPT ![i] = bank] ELSE Append(banks, bank)

(***************************************************************************)
(* storage.ts: the durable store                                           *)
(***************************************************************************)
\* store.put(bank): insert or replace by key.
IdbPut(db, bank) == {b \in db : b.id # bank.id} \cup {bank}

\* store.delete(id)
IdbDelete(db, id) == {b \in db : b.id # id}

\* store.clear(); for (const bank of banks) store.put(bank)  -- one transaction
RECURSIVE IdbPutAll(_, _)
IdbPutAll(db, banks) ==
  IF banks = <<>> THEN db ELSE IdbPutAll(IdbPut(db, Head(banks)), Tail(banks))

IdbReplaceAll(db, banks) == IdbPutAll({}, banks)

\* store.getAll(): every record, in key order.
RECURSIVE IdbFrom(_, _)
IdbFrom(db, k) ==
  IF k > NumIds THEN <<>>
  ELSE (IF \E b \in db : b.id = k THEN <<CHOOSE b \in db : b.id = k>> ELSE <<>>)
       \o IdbFrom(db, k + 1)

IdbGetAll(db) == IdbFrom(db, 1)

\* How a call's use of the durable store fails:
\*   "open"    openDB() rejects            (awaited inside the try)
\*   "tx"      db.transaction() throws     (inside the try)
\*   "request" the request's onerror fires (the promise a function returns
\*             without awaiting it rejects outside that function's try)
IdbFailures == {"none", "open", "tx", "request"}

\* How the promise a call returns settles, and with what value.
Resolved(value) == [settled |-> "resolved", value |-> value]
Rejected == [settled |-> "rejected", value |-> <<>>]
Pending == [settled |-> "pending", value |-> <<>>]

(***************************************************************************)
(* storage.ts: the mirror                                                  *)
(***************************************************************************)
\* What localStorage.setItem does with the payload:
\*   "ok"    it fits
\*   "tight" the payload does not fit, a strictly smaller one does
\*   "full"  nothing fits
Quotas == {"ok", "tight", "full"}

HasRawText(banks) == \E i \in 1..Len(banks) : RawTextOf(banks[i]) # Undefined

\* A saveToLocalStorage that gives up at the first throw. C31 tells it from
\* the code's.
SaveToLocalStorage_NoRetry(m, banks, q) ==
  IF q = "ok" THEN JsonRoundTrip(banks) ELSE m

\* saveToLocalStorage(banks): setItem; on a throw, setItem once more without
\* rawText; on a second throw give up. The retry payload is smaller only when
\* some bank carries a rawText.
SaveToLocalStorage(m, banks, q) ==
  CASE q = "ok" -> JsonRoundTrip(banks)
    [] q = "tight" -> IF HasRawText(banks) THEN JsonRoundTrip(MinimalBanks(banks)) ELSE m
    [] OTHER -> m

\* loadFromLocalStorage(): the parsed array, [] when the key is missing.
LoadFromLocalStorage(m) == m

(***************************************************************************)
(* storage.ts: the calls                                                   *)
(***************************************************************************)
\* A saveToIndexedDB that puts without the store.clear(): banks saved earlier
\* survive a full save. C9 tells it from the code's.
SaveToIndexedDB_NoClear(db, m, banks, f, q) ==
  IF f = "none"
  THEN [idb |-> IdbPutAll(db, banks), ls |-> m]
  ELSE [idb |-> db, ls |-> SaveToLocalStorage(m, banks, q)]

\* saveToIndexedDB(banks): everything is awaited inside the try, so every
\* failure reaches the catch, which writes the mirror instead. A failed
\* transaction is rolled back.
SaveToIndexedDB(db, m, banks, f, q) ==
  IF f = "none"
  THEN [idb |-> IdbReplaceAll(db, banks), ls |-> m]
  ELSE [idb |-> db, ls |-> SaveToLocalStorage(m, banks, q)]

\* saveStudyBanks(banks)
SaveStudyBanks(db, m, banks, f, q) ==
  LET s == SaveToIndexedDB(db, m, banks, f, q)
  IN [idb |-> s.idb, ls |-> SaveToLocalStorage(s.ls, banks, q), ret |-> Resolved(<<>>)]

\* loadFromIndexedDB(): getAll; a failure of openDB or transaction() is caught
\* and answered from the mirror; the getAll promise is returned unawaited, so
\* its rejection leaves the function.
LoadFromIndexedDB(db, m, f) ==
  CASE f = "none" -> [rejected |-> FALSE, banks |-> IdbGetAll(db)]
    [] f \in {"open", "tx"} -> [rejected |-> FALSE, banks |-> LoadFromLocalStorage(m)]
    [] OTHER -> [rejected |-> TRUE, banks |-> <<>>]

\* A loadStudyBanks that answers from the mirror whenever the mirror holds
\* banks. C10 tells it from the code's.
LoadStudyBanks_MirrorFirst(db, m, f, f2, q) ==
  LET r == LoadFromIndexedDB(db, m, f)
      localBanks == LoadFromLocalStorage(m)
  IN IF Len(localBanks) > 0 \/ r.rejected
     THEN [idb |-> db, ls |-> m, ret |-> Resolved(localBanks)]
     ELSE [idb |-> db, ls |-> m, ret |-> Resolved(r.banks)]

\* loadStudyBanks(): f is how the read fails, f2 how the migration write does.
LoadStudyBanks(db, m, f, f2, q) ==
  LET r == LoadFromIndexedDB(db, m, f)
      localBanks == LoadFromLocalStorage(m)
  IN CASE r.rejected -> [idb |-> db, ls |-> m, ret |-> Resolved(LoadFromLocalStorage(m))]
       [] ~r.rejected /\ Len(r.banks) > 0 -> [idb |-> db, ls |-> m, ret |-> Resolved(r.banks)]
       [] OTHER ->
            IF Len(localBanks) > 0
            THEN LET s == SaveToIndexedDB(db, m, localBanks, f2, q)
                 IN [idb |-> s.idb, ls |-> s.ls, ret |-> Resolved(localBanks)]
            ELSE [idb |-> db, ls |-> m, ret |-> Resolved(localBanks)]

\* saveSingleBankToIndexedDB(bank): the put promise is returned unawaited.
SaveSingleBankToIndexedDB(db, m, bank, f, q) ==
  CASE f = "none" -> [rejected |-> FALSE, idb |-> IdbPut(db, bank), ls |-> m]
    [] f \in {"open", "tx"} ->
         [rejected |-> FALSE, idb |-> db,
          ls |-> SaveToLocalStorage(m, Upsert(LoadFromLocalStorage(m), bank), q)]
    [] OTHER -> [rejected |-> TRUE, idb |-> db, ls |-> m]

\* saveStudyBankIncremental(bank)
SaveStudyBankIncremental(db, m, bank, f, q) ==
  LET s == SaveSingleBankToIndexedDB(db, m, bank, f, q)
  IN IF s.rejected
     THEN [idb |-> s.idb, ls |-> s.ls, ret |-> Rejected]
     ELSE [idb |-> s.idb,
           ls |-> SaveToLocalStorage(s.ls, Upsert(LoadFromLocalStorage(s.ls), bank), q),
           ret |-> Resolved(<<>>)]

\* deleteBankFromIndexedDB(id): the delete promise is returned unawaited.
DeleteBankFromIndexedDB(db, id, f) ==
  CASE f = "none" -> [rejected |-> FALSE, idb |-> IdbDelete(db, id)]
    [] f \in {"open", "tx"} -> [rejected |-> FALSE, idb |-> db]
    [] OTHER -> [rejected |-> TRUE, idb |-> db]

\* A deleteStudyBank that leaves the mirror as it is. C11 tells it from the
\* code's.
DeleteStudyBank_IdbOnly(db, m, id, f, q) ==
  LET s == DeleteBankFromIndexedDB(db, id, f)
  IN IF s.rejected
     THEN [idb |-> s.idb, ls |-> m, ret |-> Rejected]
     ELSE [idb |-> s.idb, ls |-> m, ret |-> Resolved(<<>>)]

\* deleteStudyBank(id)
DeleteStudyBank(db, m, id, f, q) ==
  LET s == DeleteBankFromIndexedDB(db, id, f)
  IN IF s.rejected
     THEN [idb |-> s.idb, ls |-> m, ret |-> Rejected]
     ELSE [idb |-> s.idb,
           ls |-> SaveToLocalStorage(m, FilterOutId(LoadFromLocalStorage(m), id), q),
           ret |-> Resolved(<<>>)]

\* loadStudyBanksSync()
LoadStudyBanksSync(m) == LoadFromLocalStorage(m)

(***************************************************************************)
(* StudyContext.tsx: studyReducer                                          *)
(***************************************************************************)
Idle == [isProcessing |-> FALSE, currentChunk |-> 0, totalChunks |-> 0, message |-> ""]

State ==
  [studyBanks |-> studyBanks, activeBank |-> activeBank,
   processingStatus |-> processingStatus, isHydrated |-> isHydrated]

\* A load that keeps the persisted isProcessing. C2 tells it from the code's.
CleanedBanks_Kept(banks) == banks

\* banks.map(bank => ({...bank, isProcessing: false}))
CleanedBanks(banks) == [i \in 1..Len(banks) |-> [banks[i] EXCEPT !.isProcessing = FALSE]]

\* results.xs.map(x => ({...x, id: generateId(), chunkIndex}))
Tag(items, chunkIndex) == [i \in 1..Len(items) |-> Item(items[i], chunkIndex)]

\* case 'LOAD_BANKS'
LoadBanks(state, payload) ==
  [state EXCEPT !.studyBanks = payload,
                !.isHydrated = TRUE,
                !.activeBank = IF @ # Null THEN @
                               ELSE IF Len(payload) > 0 THEN payload[1] ELSE Null]

\* case 'SET_HYDRATED'
SetHydrated(state) == [state EXCEPT !.isHydrated = TRUE]

\* case 'ADD_BANK'
AddBank(state, payload) ==
  [state EXCEPT !.studyBanks = Append(@, payload), !.activeBank = payload]

\* case 'DELETE_BANK'
DeleteBank(state, payload) ==
  [state EXCEPT !.studyBanks = FilterOutId(@, payload),
                !.activeBank = IF @.id = payload THEN Null ELSE @]

\* case 'SET_ACTIVE_BANK'
SetActiveBank(state, payload) == [state EXCEPT !.activeBank = payload]

\* case 'SET_PROCESSING_STATUS'
SetProcessingStatus(state, payload) == [state EXCEPT !.processingStatus = payload]

\* An APPEND_CHUNK_RESULTS that puts the new items in front of the bank's.
\* C3 tells it from the code's.
AppendChunkResults_Prepend(state, bankId, chunkIndex, results) ==
  LET bankIndex == FindIndex(state.studyBanks, bankId)
  IN IF bankIndex = 0 THEN state
     ELSE LET bank == state.studyBanks[bankIndex]
              updatedBank ==
                [bank EXCEPT !.flashcards = Tag(results.flashcards, chunkIndex) \o @,
                             !.mcqs = Tag(results.mcqs, chunkIndex) \o @,
                             !.fillBlanks = Tag(results.fillBlanks, chunkIndex) \o @,
                             !.shortAnswers = Tag(results.shortAnswers, chunkIndex) \o @,
                             !.processedChunks = chunkIndex + 1]
          IN [state EXCEPT !.studyBanks[bankIndex] = updatedBank,
                           !.activeBank = IF @.id = bankId THEN updatedBank ELSE @]

\* case 'APPEND_CHUNK_RESULTS'
AppendChunkResults(state, bankId, chunkIndex, results) ==
  LET bankIndex == FindIndex(state.studyBanks, bankId)
  IN IF bankIndex = 0 THEN state
     ELSE LET bank == state.studyBanks[bankIndex]
              updatedBank ==
                [bank EXCEPT !.flashcards = @ \o Tag(results.flashcards, chunkIndex),
                             !.mcqs = @ \o Tag(results.mcqs, chunkIndex),
                             !.fillBlanks = @ \o Tag(results.fillBlanks, chunkIndex),
                             !.shortAnswers = @ \o Tag(results.shortAnswers, chunkIndex),
                             !.processedChunks = chunkIndex + 1]
          IN [state EXCEPT !.studyBanks[bankIndex] = updatedBank,
                           !.activeBank = IF @.id = bankId THEN updatedBank ELSE @]

\* case 'FINISH_PROCESSING'
FinishProcessing(state, bankId) ==
  LET bankIndex == FindIndex(state.studyBanks, bankId)
  IN IF bankIndex = 0 THEN [state EXCEPT !.processingStatus = Idle]
     ELSE LET updatedBank == [state.studyBanks[bankIndex] EXCEPT !.isProcessing = FALSE]
          IN [state EXCEPT !.studyBanks[bankIndex] = updatedBank,
                           !.activeBank = IF @.id = bankId THEN updatedBank ELSE @,
                           !.processingStatus = Idle]

\* studyReducer(state, action). UPDATE_BANK is dispatched nowhere in the
\* program and is left to the default.
studyReducer(state, action) ==
  CASE action.type = "LOAD_BANKS" -> LoadBanks(state, action.payload)
    [] action.type = "SET_HYDRATED" -> SetHydrated(state)
    [] action.type = "ADD_BANK" -> AddBank(state, action.payload)
    [] action.type = "DELETE_BANK" -> DeleteBank(state, action.payload)
    [] action.type = "SET_ACTIVE_BANK" -> SetActiveBank(state, action.payload)
    [] action.type = "SET_PROCESSING_STATUS" -> SetProcessingStatus(state, action.payload)
    [] action.type = "APPEND_CHUNK_RESULTS" ->
         AppendChunkResults(state, action.payload.bankId, action.payload.chunkIndex,
                            action.payload.results)
    [] action.type = "FINISH_PROCESSING" -> FinishProcessing(state, action.payload)
    [] OTHER -> state

\* The render after a dispatch: memory becomes the reducer's result.
Rendered(state) ==
  /\ studyBanks' = state.studyBanks
  /\ activeBank' = state.activeBank
  /\ processingStatus' = state.processingStatus
  /\ isHydrated' = state.isHydrated

(***************************************************************************)
(* The application's state outside the reducer                             *)
(***************************************************************************)
\* processFile is not running. Besides its position (pc, the bank, the loop
\* index i of n chunks) the record keeps what the run has done: the chunk
\* indices processChunk was called with (calls) and those whose results were
\* dispatched (dispatched), in order; whether every provider call failed; how
\* many chunks were appended to the bank in memory; the largest
\* processedChunks an incremental save of the bank was issued with; and
\* whether the user deleted the bank while such a save was in flight (raced).
NoRun ==
  [pc |-> "idle", bankId |-> 0, n |-> 0, i |-> 0, kinds |-> <<>>,
   calls |-> <<>>, dispatched |-> <<>>,
   allFailed |-> TRUE, appended |-> 0, incSaved |-> 0, raced |-> FALSE]

\* No save timer is armed.
NoTimer == [armed |-> FALSE, banks |-> <<>>]

\* loadAsync is not running.
NoLoad == [status |-> "done", mountLen |-> 0, last |-> "none", reloads |-> 0]

\* The chunker's variable where no chunker call is modelled.
NoChunker ==
  [text |-> <<>>, chunkSize |-> 0, overlapSize |-> 0,
   chunked |-> FALSE, chunks |-> <<>>, estimated |-> FALSE, estimate |-> 0,
   pc |-> "idle", currentStart |-> 0]

\* No response of a provider.
NoResponse ==
  [json |-> "none", flashcards |-> <<>>, mcqs |-> <<>>, fillBlanks |-> <<>>,
   shortAnswers |-> <<>>]

\* No parseAIResponse call is modelled.
NoParser ==
  [called |-> FALSE, response |-> NoResponse, outcome |-> "none",
   result |-> EmptyResult]

\* The provider module and AIProviderStatus as they load: currentConfig is
\* { provider: 'ollama' }, no probe is under way, nothing is reported, and
\* callAI has not been called.
NoProvider ==
  [provider |-> "ollama",
   checking |-> FALSE, probed |-> "none",
   isConnected |-> [known |-> FALSE, of |-> "none", status |-> FALSE],
   routed |-> "none", last |-> "none"]

\* No streamed call is modelled.
NoStream ==
  [pc |-> "idle", fragments |-> <<>>, pos |-> 0, fullResponse |-> <<>>,
   progress |-> <<>>]

\* The module as loaded: currentConfig = {provider: 'ollama'}, nothing in
\* localStorage, no generate call made.
NoConfig ==
  [provider |-> "ollama", apiKey |-> Undefined,
   stored |-> [provider |-> "", gemini |-> "", groq |-> ""],
   sent |-> [to |-> "none", key |-> "", stored |-> ""]]

AppUnused ==
  /\ pending = <<>> /\ run = NoRun /\ timer = NoTimer /\ load = NoLoad
  /\ issued = {} /\ atReload = Null
  /\ chunker = NoChunker
  /\ parser = NoParser
  /\ provider = NoProvider
  /\ stream = NoStream
  /\ config = NoConfig

(***************************************************************************)
(* aiAdapter.ts: parser, fallback generator, processChunk                  *)
(***************************************************************************)
\* processChunk returns the empty result for a text shorter than this.
MinChunkLength == 50

\* generateFallbackContent's caps on flashcards, fill-blanks, MCQs and short
\* answers.
MaxFallbackFlashcards == 25
MaxFallbackFillBlanks == 15
MaxFallbackMcqs == 10
MaxFallbackShortAnswers == 8

\* A raw entry of a list of the provider's JSON: "ok" has the fields the
\* filter asks for, "incomplete" lacks one, "null" is not an object (reading
\* a field of it throws inside parseAIResponse's try).
Raw(kind, content) == [kind |-> kind, content |-> content]

\* list.filter(...).map(...), or the throw on a null entry.
ParseList(raws) ==
  LET threw == \E i \in 1..Len(raws) : raws[i].kind = "null"
      kept == SelectSeq(raws, LAMBDA r : r.kind = "ok")
  IN [threw |-> threw,
      items |-> IF threw THEN <<>> ELSE [i \in 1..Len(kept) |-> kept[i].content]]

\* parseAIResponse(response): no JSON object in the text, or JSON.parse
\* throwing, leaves the empty result; a throw while a list is read leaves that
\* list and the lists after it empty.
parseAIResponse(response) ==
  IF response.json # "object" THEN EmptyResult
  ELSE LET f == ParseList(response.flashcards)
           m == ParseList(response.mcqs)
           b == ParseList(response.fillBlanks)
           a == ParseList(response.shortAnswers)
       IN [flashcards |-> f.items,
           mcqs |-> IF f.threw THEN <<>> ELSE m.items,
           fillBlanks |-> IF f.threw \/ m.threw THEN <<>> ELSE b.items,
           shortAnswers |-> IF f.threw \/ m.threw \/ b.threw THEN <<>> ELSE a.items]

TotalItems(r) == Len(r.flashcards) + Len(r.mcqs) + Len(r.fillBlanks) + Len(r.shortAnswers)

\* The members of a set of indices in increasing order: the order in which a
\* for loop over the sentences meets them.
RECURSIVE Ascending(_)
Ascending(S) ==
  IF S = {} THEN <<>>
  ELSE LET m == CHOOSE x \in S : \A y \in S : x <= y
       IN <<m>> \o Ascending(S \ {m})

\* The loop condition xs.length < cap: the first cap of the sentences taken.
Take(s, cap) == SubSeq(s, 1, IF Len(s) < cap THEN Len(s) ELSE cap)

\* Math.floor(Math.random() * m) for Math.random() = u / 3
Floor(u, m) == (u * m) \div 3

\* Some of the orders the shuffle leaves four options in.
Shuffles == {<<1, 2, 3, 4>>, <<2, 1, 4, 3>>, <<4, 3, 2, 1>>}

\* What Math.random gives while one sentence is handled.
Randoms == [u : 0..2, shuffle : Shuffles]

\* generateFallbackContent(text). A text is given as extractSentences and
\* extractImportantWords read it: its sentences, each with its important
\* words; a word is whole when \bword\b finds it in the sentence. rnd[i] is
\* the randomness used on sentence i.
generateFallbackContent(text, rnd) ==
  LET sentences == text.sentences
      words(i) == sentences[i].words
      wordToRemove(i) ==
        words(i)[1 + Floor(rnd[i].u, IF Len(words(i)) < 3 THEN Len(words(i)) ELSE 3)]
      options(i) == [k \in 1..4 |-> words(i)[rnd[i].shuffle[k]].w]
      withWords == Ascending({i \in 1..Len(sentences) : Len(words(i)) > 0})
      blanked == Ascending({i \in 1..Len(sentences) :
                              Len(words(i)) > 0 /\ wordToRemove(i).whole})
      withFour == Ascending({i \in 1..Len(sentences) : Len(words(i)) >= 4})
      fc == Take(withWords, MaxFallbackFlashcards)
      fb == Take(blanked, MaxFallbackFillBlanks)
      mc == Take(withFour, MaxFallbackMcqs)
      sa == Take(withWords, MaxFallbackShortAnswers)
  IN [flashcards |-> [k \in 1..Len(fc) |->
                        [question |-> Take(words(fc[k]), 2), answer |-> sentences[fc[k]].s]],
      fillBlanks |-> [k \in 1..Len(fb) |->
                        [sentence |-> sentences[fb[k]].s, answer |-> wordToRemove(fb[k]).w]],
      mcqs |-> [k \in 1..Len(mc) |->
                  [question |-> sentences[mc[k]].s,
                   options |-> options(mc[k]),
                   correctIndex |->
                     (CHOOSE j \in 1..4 :
                        /\ options(mc[k])[j] = words(mc[k])[1].w
                        /\ \A l \in 1..(j - 1) : options(mc[k])[l] # words(mc[k])[1].w) - 1]],
      shortAnswers |-> [k \in 1..Len(sa) |->
                          [question |-> Take(words(sa[k]), 2), answer |-> sentences[sa[k]].s]]]

\* A processChunk call: where it stands, its text, which awaited call threw
\* (failed), and how its promise settled, with what; what checkProviderStatus
\* gave (probe), how many times callAI was called (generates) and what it
\* gave (response), and whether generateFallbackContent was called.
NoText == [length |-> 0, sentences |-> <<>>]

NoChunkCall ==
  [pc |-> "idle", text |-> NoText, failed |-> "none", outcome |-> "pending",
   result |-> EmptyResult,
   probe |-> "none", generates |-> 0, response |-> NoResponse, fallback |-> FALSE]

\* return value
ChunkReturns(c, result) == [c EXCEPT !.pc = "returned", !.outcome = "resolved", !.result = result]

\* A catch block that throws the error on. C5 tells it from the code's.
Caught_Rethrow(c, failed, rnd) ==
  [c EXCEPT !.pc = "returned", !.failed = failed, !.outcome = "rejected"]

\* catch (error) { ...; return generateFallbackContent(text) }
Caught(c, failed, rnd) ==
  ChunkReturns([c EXCEPT !.failed = failed, !.fallback = TRUE],
               generateFallbackContent(c.text, rnd))

\* processChunk(text, ...) up to its first await: the length guard, the
\* prompt, the call of checkProviderStatus.
ProcessChunkEntered(text) ==
  IF text.length < MinChunkLength
  THEN ChunkReturns([NoChunkCall EXCEPT !.text = text], EmptyResult)
  ELSE [NoChunkCall EXCEPT !.text = text, !.pc = "probe"]

\* callAI(prompt, onProgress) is called.
CallAI(c) == [c EXCEPT !.pc = "generate", !.generates = @ + 1]

\* A probe whose answer is not looked at. C25 tells it from the code's.
ProbeSettled_Ungated(c, available, rnd) ==
  CASE available \in {"true", "false"} -> CallAI([c EXCEPT !.probe = available])
    [] OTHER -> Caught([c EXCEPT !.probe = available], "probe", rnd)

\* await checkProviderStatus() settles: true, false (the throw of line 694) or
\* a rejection.
ProbeSettled(c, available, rnd) ==
  CASE available = "true" -> CallAI([c EXCEPT !.probe = available])
    [] available = "false" -> Caught([c EXCEPT !.probe = available], "unavailable", rnd)
    [] OTHER -> Caught([c EXCEPT !.probe = available], "probe", rnd)

\* A processChunk that returns what was parsed, items or none. C26 tells it
\* from the code's.
GenerateSettled_NoFallback(c, response, rnd) ==
  IF response.json = "throws" THEN Caught([c EXCEPT !.response = response], "generate", rnd)
  ELSE ChunkReturns([c EXCEPT !.response = response], parseAIResponse(response))

\* await callAI(prompt) settles: a rejection, or a response, which is parsed.
GenerateSettled(c, response, rnd) ==
  IF response.json = "throws" THEN Caught([c EXCEPT !.response = response], "generate", rnd)
  ELSE LET parsed == parseAIResponse(response)
       IN IF TotalItems(parsed) > 0 THEN ChunkReturns([c EXCEPT !.response = response], parsed)
          ELSE ChunkReturns([c EXCEPT !.response = response, !.fallback = TRUE],
                            generateFallbackContent(c.text, rnd))

(***************************************************************************)
(* SpecStore: the storage API, one call at a time                          *)
(***************************************************************************)
\* The banks the calls are given: bank 1 freshly created or finished with a
\* raw text attached, every other bank finished.
DoneBank(id) ==
  [NewBank(id, 1) EXCEPT !.processedChunks = 1, !.isProcessing = FALSE,
                         !.flashcards = <<Item("f", 0)>>]

StoreBanks ==
  {NewBank(1, 1), WithRawText(DoneBank(1), "text")} \cup {DoneBank(id) : id \in BankIds \ {1}}

\* Collections of banks with distinct ids, in any order.
RECURSIVE CollectionsOver(_)
CollectionsOver(ids) ==
  {<<>>} \cup UNION {
    {<<b>> \o c : c \in CollectionsOver(ids \ {b.id})} : b \in {x \in StoreBanks : x.id \in ids}}

Collections == CollectionsOver(BankIds)

NoCall == [op |-> "none", banks |-> <<>>, id |-> 0, f |-> "none", f2 |-> "none", q |-> "ok"]

MemoryUnused ==
  /\ studyBanks = <<>> /\ activeBank = Null /\ processingStatus = Idle /\ isHydrated = FALSE

\* No appendChunkResults call is on record for any id.
NoHistory == [id \in BankIds |-> [base |-> Null, appends |-> <<>>]]

InitStore ==
  /\ MemoryUnused
  /\ AppUnused
  /\ history = NoHistory
  /\ chunkCall = NoChunkCall
  /\ idb \in {SeqToSet(c) : c \in Collections}
  /\ ls \in {JsonRoundTrip(c) : c \in Collections}
  /\ lastCall = NoCall
  /\ prevCall = NoCall
  /\ ret = Pending

Returned(s, call) ==
  /\ idb' = s.idb
  /\ ls' = s.ls
  /\ ret' = s.ret
  /\ lastCall' = call
  /\ prevCall' = lastCall
  /\ UNCHANGED notStore

\* lastCall and ret observe the most recent call. A loadStudyBanks may follow
\* any call directly (save-then-load, delete-then-load); before any other call
\* the observation is dropped (Observed), which leaves the stores as they are.
CallSaveStudyBanks ==
  /\ lastCall = NoCall
  /\ \E banks \in Collections, f \in IdbFailures, q \in Quotas :
       Returned(SaveStudyBanks(idb, ls, banks, f, q),
                [op |-> "saveStudyBanks", banks |-> banks, id |-> 0, f |-> f, f2 |-> "none", q |-> q])

CallLoadStudyBanks ==
  \E f \in IdbFailures, f2 \in IdbFailures, q \in Quotas :
    \* f2 and q are read by the migration write alone
    /\ (f2 = "none" /\ q = "ok") \/ (f = "none" /\ idb = {} /\ ls # <<>>)
    /\ (q = "ok") \/ (f2 # "none")
    /\ Returned(LoadStudyBanks(idb, ls, f, f2, q),
                [op |-> "loadStudyBanks", banks |-> <<>>, id |-> 0, f |-> f, f2 |-> f2, q |-> q])

CallSaveStudyBankIncremental ==
  /\ lastCall = NoCall
  /\ \E bank \in StoreBanks, f \in IdbFailures, q \in Quotas :
       Returned(SaveStudyBankIncremental(idb, ls, bank, f, q),
                [op |-> "saveStudyBankIncremental", banks |-> <<bank>>, id |-> bank.id,
                 f |-> f, f2 |-> "none", q |-> q])

CallDeleteStudyBank ==
  /\ lastCall = NoCall
  /\ \E id \in BankIds, f \in IdbFailures, q \in Quotas :
       Returned(DeleteStudyBank(idb, ls, id, f, q),
                [op |-> "deleteStudyBank", banks |-> <<>>, id |-> id, f |-> f, f2 |-> "none", q |-> q])

Observed ==
  /\ lastCall # NoCall
  /\ lastCall' = NoCall
  /\ prevCall' = NoCall
  /\ ret' = Pending
  /\ UNCHANGED <<notStore, storeVars>>

NextStore ==
  \/ CallSaveStudyBanks
  \/ CallLoadStudyBanks
  \/ CallSaveStudyBankIncremental
  \/ CallDeleteStudyBank
  \/ Observed

SpecStore == InitStore /\ [][NextStore]_vars

(***************************************************************************)
(* Claims on the storage API (SpecStore)                                   *)
(***************************************************************************)
NoFailure(c) == c.f = "none" /\ c.f2 = "none" /\ c.q = "ok"

BankFields == {"id", "totalChunks", "processedChunks", "flashcards", "mcqs",
               "fillBlanks", "shortAnswers", "isProcessing"}

\* Two banks read the same: every property of StudyBank, rawText included.
SameBank(a, b) == RawTextOf(a) = RawTextOf(b) /\ \A k \in BankFields : a[k] = b[k]

\* C8: if the durable write fails (open, transaction or request), then, the
\* mirror accepting the write, saveStudyBankIncremental(bank) leaves the mirror
\* holding bank as its one entry of that id, and saveStudyBanks(banks) leaves
\* the mirror equal to banks.
C8_DegradeToMirror ==
  /\ (lastCall.op = "saveStudyBankIncremental" /\ lastCall.f # "none" /\ lastCall.q = "ok")
       => /\ \E i \in 1..Len(ls) : ls[i] = JsonBank(lastCall.banks[1])
          /\ Cardinality({i \in 1..Len(ls) : ls[i].id = lastCall.id}) = 1
  /\ (lastCall.op = "saveStudyBanks" /\ lastCall.f # "none" /\ lastCall.q = "ok")
       => ls = JsonRoundTrip(lastCall.banks)

\* C9: saveStudyBanks(banks) followed by loadStudyBanks(), no store failing:
\* the result has exactly the ids of banks, once each, and for each id the
\* content of the bank saved; whatever the stores held before.
C9_RoundTrip ==
  (/\ lastCall.op = "loadStudyBanks" /\ NoFailure(lastCall)
   /\ prevCall.op = "saveStudyBanks" /\ NoFailure(prevCall))
  => /\ Len(ret.value) = Len(prevCall.banks)
     /\ IdsOf(ret.value) = IdsOf(prevCall.banks)
     /\ \A i \in 1..Len(ret.value) : \E j \in 1..Len(prevCall.banks) :
          prevCall.banks[j].id = ret.value[i].id /\ SameBank(prevCall.banks[j], ret.value[i])

\* C9 witness: two banks saved in an order that is not the key order, one of
\* them with a raw text, and loaded back.
C9_Witness ==
  /\ lastCall.op = "loadStudyBanks" /\ NoFailure(lastCall)
  /\ prevCall.op = "saveStudyBanks" /\ NoFailure(prevCall)
  /\ Len(prevCall.banks) = 2
  /\ prevCall.banks[1].id > prevCall.banks[2].id
  /\ HasRawText(ret.value)
  /\ ret.value # prevCall.banks

\* C10: loadStudyBanks, no store failing: a non-empty durable store is what is
\* returned, whatever the mirror holds, and neither store changes; with an
\* empty durable store the mirror's banks are returned, and a non-empty mirror
\* is then exactly what the durable store holds.
C10_LoadPrefersDurable ==
  [][(lastCall'.op = "loadStudyBanks" /\ NoFailure(lastCall'))
       => IF idb # {}
          THEN ret' = Resolved(IdbGetAll(idb)) /\ idb' = idb /\ ls' = ls
          ELSE /\ ret' = Resolved(ls) /\ ls' = ls
               /\ idb' = SeqToSet(ls)]_vars

\* C10 witness: the mirror was migrated into the empty durable store (the
\* result is in the mirror's order, not in key order).
C10_Witness ==
  /\ lastCall.op = "loadStudyBanks" /\ NoFailure(lastCall)
  /\ Len(ret.value) = 2 /\ ret.value = ls
  /\ idb = SeqToSet(ls)
  /\ IdbGetAll(idb) # ret.value

\* C11: deleteStudyBank(id), no store failing: afterwards neither store holds
\* a bank of that id, and the other banks of each store are there as before,
\* the mirror's in their order.
C11_DeleteBothStores ==
  [][(lastCall'.op = "deleteStudyBank" /\ NoFailure(lastCall'))
       => /\ idb' = {b \in idb : b.id # lastCall'.id}
          /\ ls' = SelectSeq(ls, LAMBDA b : b.id # lastCall'.id)]_vars

\* C11 witness: a bank was deleted and each store is left with another bank.
C11_Witness ==
  /\ lastCall.op = "deleteStudyBank" /\ NoFailure(lastCall)
  /\ idb # {} /\ ls # <<>>
  /\ \A b \in idb : b.id # lastCall.id
  /\ lastCall.id \notin IdsOf(ls)

\* The collection a save hands to saveToLocalStorage: banks for
\* saveStudyBanks, the mirror's banks with bank put in for
\* saveStudyBankIncremental.
MirrorPayload(m, call) ==
  IF call.op = "saveStudyBanks" THEN call.banks ELSE Upsert(m, call.banks[1])

\* C31: a save whose mirror write throws (the payload does not fit) writes
\* once more with the rawText of every bank dropped: when that fits, the
\* mirror holds the payload without any rawText; when it throws as well
\* (nothing fits, or the payload had no rawText to drop), the save resolves
\* and the mirror holds what it held before.
C31_MirrorWriteRetry ==
  [][(/\ lastCall'.op \in {"saveStudyBanks", "saveStudyBankIncremental"}
      /\ lastCall'.q # "ok"
      /\ lastCall'.f # "request")
       => LET payload == MirrorPayload(ls, lastCall')
          IN /\ ret' = Resolved(<<>>)
             /\ IF lastCall'.q = "tight" /\ HasRawText(payload)
                THEN /\ ls' = JsonRoundTrip(MinimalBanks(payload))
                     /\ ~HasRawText(ls')
                ELSE ls' = ls]_vars

\* C31 witness: the first write of two banks, one with a raw text, did not
\* fit and the second did: the mirror holds both banks without raw text.
C31_Witness ==
  /\ lastCall.op = "saveStudyBanks" /\ lastCall.q = "tight" /\ lastCall.f = "none"
  /\ Len(lastCall.banks) = 2 /\ HasRawText(lastCall.banks)
  /\ ls = JsonRoundTrip(MinimalBanks(lastCall.banks))
  /\ ret = Resolved(<<>>)

\* The save resolved with its durable write failed and its mirror write made.
DegradedToMirror(call) ==
  /\ call.q = "ok"
  /\ \/ call.op = "saveStudyBanks" /\ call.f # "none"
     \/ call.op = "saveStudyBankIncremental" /\ call.f \in {"open", "tx"}

\* C35 (a degraded save is not lost): loadStudyBanks() right after a save
\* that degraded to the mirror returns what was saved: the banks of
\* saveStudyBanks(banks), each with its content and no other; the bank of
\* saveStudyBankIncremental(bank) with its content.
C35_DegradedSaveNotLost ==
  (lastCall.op = "loadStudyBanks" /\ DegradedToMirror(prevCall))
  => /\ \A j \in 1..Len(prevCall.banks) : \E i \in 1..Len(ret.value) :
          ret.value[i].id = prevCall.banks[j].id /\ SameBank(prevCall.banks[j], ret.value[i])
     /\ prevCall.op = "saveStudyBanks" => Len(ret.value) = Len(prevCall.banks)

(***************************************************************************)
(* SpecReducer: studyReducer on the actions the program dispatches, with   *)
(* any payload                                                             *)
(***************************************************************************)
FullResult ==
  [flashcards |-> <<"q1", "q2">>, mcqs |-> <<"m1">>,
   fillBlanks |-> <<"b1">>, shortAnswers |-> <<"s1">>]

Results == {EmptyResult, FullResult}

ChunkIndices == 0..MaxChunks

Statuses ==
  {Idle, [isProcessing |-> TRUE, currentChunk |-> 1, totalChunks |-> 1, message |-> ""]}

StoreUnused ==
  /\ idb = {} /\ ls = <<>>
  /\ lastCall = NoCall /\ prevCall = NoCall /\ ret = Pending

RECURSIVE SumAppends(_, _)
SumAppends(h, k) == IF k > NumIds THEN 0 ELSE Len(h[k].appends) + SumAppends(h, k + 1)

InitReducer ==
  /\ studyBanks = <<>> /\ activeBank = Null /\ processingStatus = Idle /\ isHydrated = FALSE
  /\ StoreUnused
  /\ AppUnused
  /\ history = NoHistory
  /\ chunkCall = NoChunkCall

\* loadAsync dispatches once, LOAD_BANKS or SET_HYDRATED, after which
\* isHydrated is true.
DispatchLoadBanks ==
  /\ ~isHydrated
  /\ \E c \in Collections :
       LET payload == CleanedBanks(c)
       IN /\ Rendered(studyReducer(State, [type |-> "LOAD_BANKS", payload |-> payload]))
          /\ history' = [id \in BankIds |->
                           IF id \in IdsOf(payload)
                           THEN [base |-> payload[FindIndex(payload, id)], appends |-> <<>>]
                           ELSE NoHistory[id]]
  /\ UNCHANGED notReducer

DispatchSetHydrated ==
  /\ ~isHydrated
  /\ Rendered(studyReducer(State, [type |-> "SET_HYDRATED"]))
  /\ UNCHANGED <<notReducer, history>>

\* createStudyBank: generateId gives an id no bank in memory has.
DispatchAddBank ==
  /\ \E id \in BankIds \ IdsOf(studyBanks), totalChunks \in 1..MaxChunks :
       LET bank == NewBank(id, totalChunks)
       IN /\ Rendered(studyReducer(State, [type |-> "ADD_BANK", payload |-> bank]))
          /\ history' = [history EXCEPT ![id] = [base |-> bank, appends |-> <<>>]]
  /\ UNCHANGED notReducer

DispatchDeleteBank ==
  /\ \E id \in BankIds :
       /\ Rendered(studyReducer(State, [type |-> "DELETE_BANK", payload |-> id]))
       /\ history' = [history EXCEPT ![id] = NoHistory[id]]
  /\ UNCHANGED notReducer

DispatchSetActiveBank ==
  /\ \E bank \in SeqToSet(studyBanks) \cup {Null} :
       Rendered(studyReducer(State, [type |-> "SET_ACTIVE_BANK", payload |-> bank]))
  /\ UNCHANGED <<notReducer, history>>

DispatchSetProcessingStatus ==
  /\ \E status \in Statuses :
       Rendered(studyReducer(State, [type |-> "SET_PROCESSING_STATUS", payload |-> status]))
  /\ UNCHANGED <<notReducer, history>>

DispatchAppendChunkResults ==
  /\ SumAppends(history, 1) < MaxAppends
  /\ \E bankId \in BankIds, chunkIndex \in ChunkIndices, results \in Results :
       /\ Rendered(studyReducer(State,
            [type |-> "APPEND_CHUNK_RESULTS",
             payload |-> [bankId |-> bankId, chunkIndex |-> chunkIndex, results |-> results]]))
       /\ history' = IF bankId \in IdsOf(studyBanks)
                     THEN [history EXCEPT ![bankId].appends =
                             Append(@, [chunkIndex |-> chunkIndex, results |-> results])]
                     ELSE history
  /\ UNCHANGED notReducer

DispatchFinishProcessing ==
  /\ \E bankId \in BankIds :
       Rendered(studyReducer(State, [type |-> "FINISH_PROCESSING", payload |-> bankId]))
  /\ UNCHANGED <<notReducer, history>>

NextReducer ==
  \/ DispatchLoadBanks
  \/ DispatchSetHydrated
  \/ DispatchAddBank
  \/ DispatchDeleteBank
  \/ DispatchSetActiveBank
  \/ DispatchSetProcessingStatus
  \/ DispatchAppendChunkResults
  \/ DispatchFinishProcessing

SpecReducer == InitReducer /\ [][NextReducer]_vars

(***************************************************************************)
(* Claims on the reducer (SpecReducer)                                     *)
(***************************************************************************)
ItemLists == {"flashcards", "mcqs", "fillBlanks", "shortAnswers"}

\* The items of the recorded appends, list by list, in the order of the calls.
RECURSIVE ItemsOf(_, _)
ItemsOf(appends, list) ==
  IF appends = <<>> THEN <<>>
  ELSE Tag(Head(appends).results[list], Head(appends).chunkIndex) \o ItemsOf(Tail(appends), list)

\* The calls on record for the bank are those for chunks 0..N-1, in order,
\* N <= totalChunks, on a bank that entered memory as createStudyBank made it.
InOrderAppends(b) ==
  LET h == history[b.id]
  IN /\ h.base = NewBank(b.id, b.totalChunks)
     /\ Len(h.appends) <= b.totalChunks
     /\ \A k \in 1..Len(h.appends) : h.appends[k].chunkIndex = k - 1

\* C3: a bank that has received appendChunkResults for chunks 0..N-1 in order,
\* N <= totalChunks, has processedChunks = N, every item of its four lists has
\* chunkIndex < totalChunks, and each list is the items of chunks 0..N-1 in
\* append order.
C3_BankInvariant ==
  \A i \in 1..Len(studyBanks) :
    LET b == studyBanks[i]
        appends == history[b.id].appends
    IN InOrderAppends(b)
       => /\ b.processedChunks = Len(appends)
          /\ \A list \in ItemLists :
               /\ b[list] = ItemsOf(appends, list)
               /\ \A k \in 1..Len(b[list]) : b[list][k].chunkIndex < b.totalChunks

\* C3 witness: a bank of MaxChunks chunks filled by in-order appends, the
\* first and the last of them with items.
C3_Witness ==
  \E i \in 1..Len(studyBanks) :
    LET b == studyBanks[i]
        appends == history[b.id].appends
    IN /\ InOrderAppends(b)
       /\ b.totalChunks = MaxChunks
       /\ Len(appends) = MaxChunks
       /\ appends[1].results = FullResult
       /\ appends[MaxChunks].results = FullResult
       /\ b.processedChunks = MaxChunks

\* C4: every bank has 0 <= processedChunks <= totalChunks after every step, and
\* no step lowers the processedChunks of a bank that stays in memory.
C4_ProcessedChunksBounded ==
  [][\A i \in 1..Len(studyBanks') :
       LET b == studyBanks'[i]
       IN /\ 0 <= b.processedChunks
          /\ b.processedChunks <= b.totalChunks
          /\ \A j \in 1..Len(studyBanks) :
               studyBanks[j].id = b.id => studyBanks[j].processedChunks <= b.processedChunks]_vars

(***************************************************************************)
(* SpecChunk: aiAdapter.processChunk, one call after another               *)
(***************************************************************************)
W(w) == [w |-> w, whole |-> TRUE]

\* A text under the length guard; one long enough but with no important word;
\* one sentence of three words; one of four words, the first not whole in the
\* sentence; two sentences, of two and of four words.
Texts ==
  {[length |-> 11, sentences |-> <<>>],
   [length |-> 50, sentences |-> <<[s |-> "s1", words |-> <<>>]>>],
   [length |-> 60, sentences |-> <<[s |-> "s1", words |-> <<W("w1"), W("w2"), W("w3")>>]>>],
   [length |-> 80, sentences |->
      <<[s |-> "s1", words |-> <<[w |-> "w1", whole |-> FALSE], W("w2"), W("w3"), W("w4")>>]>>],
   [length |-> 200, sentences |->
      <<[s |-> "s1", words |-> <<W("w1"), W("w2")>>],
        [s |-> "s2", words |-> <<W("w3"), W("w4"), W("w3"), W("w5")>>]>>]}

NoList == <<>>

\* What callAI gives: a rejection, a text with no JSON object in it, one that
\* JSON.parse refuses, and objects: with usable items, with none, with a null
\* entry after usable ones.
Responses ==
  {[json |-> j, flashcards |-> NoList, mcqs |-> NoList, fillBlanks |-> NoList,
    shortAnswers |-> NoList] : j \in {"throws", "none", "invalid"}}
  \cup
  {[json |-> "object", flashcards |-> f, mcqs |-> m, fillBlanks |-> NoList,
    shortAnswers |-> NoList] :
     f \in {<<>>, <<Raw("ok", "f1"), Raw("incomplete", "f2")>>, <<Raw("incomplete", "f2")>>},
     m \in {<<>>, <<Raw("null", "m1")>>, <<Raw("ok", "m2")>>}}

RandomsFor(text) == [1..Len(text.sentences) -> Randoms]

InitChunk ==
  /\ MemoryUnused
  /\ StoreUnused
  /\ AppUnused
  /\ history = NoHistory
  /\ chunkCall = NoChunkCall

ProcessChunkCalled ==
  /\ chunkCall.pc = "idle"
  /\ \E text \in Texts : chunkCall' = ProcessChunkEntered(text)
  /\ UNCHANGED notChunk

ProbeSettles ==
  /\ chunkCall.pc = "probe"
  /\ \E available \in {"true", "false", "throws"}, rnd \in RandomsFor(chunkCall.text) :
       chunkCall' = ProbeSettled(chunkCall, available, rnd)
  /\ UNCHANGED notChunk

GenerateSettles ==
  /\ chunkCall.pc = "generate"
  /\ \E response \in Responses, rnd \in RandomsFor(chunkCall.text) :
       chunkCall' = GenerateSettled(chunkCall, response, rnd)
  /\ UNCHANGED notChunk

\* The caller takes the result; the next call can start.
ChunkResultTaken ==
  /\ chunkCall.pc = "returned"
  /\ chunkCall' = NoChunkCall
  /\ UNCHANGED notChunk

NextChunk ==
  \/ ProcessChunkCalled
  \/ ProbeSettles
  \/ GenerateSettles
  \/ ChunkResultTaken

SpecChunk == InitChunk /\ [][NextChunk]_vars

C25_AvailabilityGating ==
  /\ chunkCall.generates <= 1
  /\ chunkCall.generates = 1 => chunkCall.probe = "true"
  /\ chunkCall.pc = "generate" => (chunkCall.probe = "true" /\ chunkCall.generates = 1)
  /\ chunkCall.pc = "probe" => (chunkCall.probe = "none" /\ chunkCall.generates = 0)
  /\ (chunkCall.pc = "returned" /\ chunkCall.probe = "false") =>
       /\ chunkCall.generates = 0
       /\ chunkCall.fallback
       /\ \E rnd \in RandomsFor(chunkCall.text) :
            chunkCall.result = generateFallbackContent(chunkCall.text, rnd)

\* C25 witness: the probe returned false, and the call returned fallback
\* items without a callAI call.
C25_Witness ==
  /\ chunkCall.pc = "returned"
  /\ chunkCall.probe = "false"
  /\ chunkCall.generates = 0
  /\ Len(chunkCall.result.flashcards) = 2

\* C26 (parsed or fallback): when callAI resolved, processChunk returns the
\* parsed response, and the fallback generator is not called, if the parsed
\* response has an item; else it returns the fallback generator's output for
\* the chunk's text.
C26_ParsedOrFallback ==
  (/\ chunkCall.pc = "returned"
   /\ chunkCall.generates = 1
   /\ chunkCall.response.json # "throws")
    => LET parsed == parseAIResponse(chunkCall.response)
       IN IF TotalItems(parsed) > 0
          THEN chunkCall.result = parsed /\ ~chunkCall.fallback
          ELSE /\ chunkCall.fallback
               /\ \E rnd \in RandomsFor(chunkCall.text) :
                    chunkCall.result = generateFallbackContent(chunkCall.text, rnd)

\* C26 witness: the response parsed to nothing (its one flashcard lacks a
\* field) and the call returned fallback items.
C26_Witness ==
  /\ chunkCall.pc = "returned"
  /\ chunkCall.response.json = "object"
  /\ chunkCall.response.flashcards # <<>>
  /\ TotalItems(parseAIResponse(chunkCall.response)) = 0
  /\ chunkCall.fallback
  /\ Len(chunkCall.result.flashcards) >= 1

\* C22 (fallback non-emptiness): for a text with at least one extracted
\* sentence, generateFallbackContent returns at least one flashcard. (The
\* catch block of processChunk returns the generator's output as it is.)
C22_FallbackNonEmpty ==
  (/\ chunkCall.pc = "returned"
   /\ chunkCall.failed # "none"
   /\ Len(chunkCall.text.sentences) >= 1)
    => Len(chunkCall.result.flashcards) >= 1

(***************************************************************************)
(* Spec: the application. StudyProvider (reducer, loadAsync, the two save  *)
(* effects), FileUpload.processFile, the storage calls in flight and page  *)
(* reloads. The stores do not fail here: SpecStore explores their failures.*)
(***************************************************************************)
\* Storage calls in flight at a time.
MaxPending == 2

\* Page reloads in a behaviour.
MaxReloads == 1

\* What a chunk's text gives the local generator of aiProcessor.ts:
\*   "bare"   at most 10 characters ("Hi there"): no sentence, key term or
\*            fact is found, the guaranteed fallback of generateLocalFlashcards
\*            asks for more than 50 characters, and every generator returns []
\*   "short"  fewer than 100 characters, with material for the generators
\*   "long"   100 characters or more
ChunkKinds == {"bare", "short", "long"}

\* chunkText(result.text) by chunk kind. A text of at most chunkSize words is
\* one chunk, of any kind; a longer text gives chunks of at least overlapSize
\* words each. <<>> stands for a text that is empty once trimmed.
Documents ==
  {<<>>} \cup {<<k>> : k \in ChunkKinds}
         \cup {[j \in 1..n |-> "long"] : n \in 2..MaxChunks}

LocalResult ==
  [flashcards |-> <<"local">>, mcqs |-> <<>>, fillBlanks |-> <<"local">>, shortAnswers |-> <<>>]

ParsedResult ==
  [flashcards |-> <<"parsed">>, mcqs |-> <<"parsed">>, fillBlanks |-> <<>>, shortAnswers |-> <<>>]

\* generateLocalContent(text)
generateLocalContent(kind) == IF kind = "bare" THEN EmptyResult ELSE LocalResult

\* What callGeminiAPI and parseGeminiResponse come to:
\*   "fails"    the call throws (network, HTTP status, empty response)
\*   "items"    the response parses to at least one item
\*   "noItems"  the response parses to nothing
ProviderOutcomes == {"fails", "items", "noItems"}

\* aiProcessor.processChunk(text, chunkIndex, totalChunks)
processChunk(kind, outcome) ==
  IF kind # "long" THEN generateLocalContent(kind)
  ELSE IF outcome = "items" THEN ParsedResult
  ELSE generateLocalContent(kind)

\* The status processFile sets while it works on chunk number currentChunk.
\* (The message is display text and is not modelled.)
Working(currentChunk, totalChunks) ==
  [isProcessing |-> TRUE, currentChunk |-> currentChunk, totalChunks |-> totalChunks,
   message |-> ""]

\* A storage call that does not go through IndexedDB: it starts at its
\* mirror write. C33 tells it from the code's.
Op_MirrorOnly(op, banks, id) == [op |-> op, banks |-> banks, id |-> id, stage |-> "mirror"]

\* A storage call as it is issued: its IndexedDB part comes first.
Op(op, banks, id) == [op |-> op, banks |-> banks, id |-> id, stage |-> "idb"]

\* The reducer over the dispatches of one synchronous block, which React
\* renders as one batch.
RECURSIVE Reduce(_, _)
Reduce(state, actions) ==
  IF actions = <<>> THEN state
  ELSE Reduce(studyReducer(state, Head(actions)), Tail(actions))

\* The action makes the reducer return a new studyBanks array.
NewArray(state, action) ==
  \/ action.type \in {"LOAD_BANKS", "ADD_BANK", "DELETE_BANK"}
  \/ /\ action.type = "APPEND_CHUNK_RESULTS"
     /\ FindIndex(state.studyBanks, action.payload.bankId) > 0
  \/ /\ action.type = "FINISH_PROCESSING"
     /\ FindIndex(state.studyBanks, action.payload) > 0

RECURSIVE BanksReplaced(_, _)
BanksReplaced(state, actions) ==
  /\ actions # <<>>
  /\ \/ NewArray(state, Head(actions))
     \/ BanksReplaced(studyReducer(state, Head(actions)), Tail(actions))

\* state.studyBanks.find(b => b.isProcessing), as a list of at most one bank.
RECURSIVE FindProcessing(_)
FindProcessing(banks) ==
  IF banks = <<>> THEN <<>>
  ELSE IF Head(banks).isProcessing THEN <<Head(banks)>>
  ELSE FindProcessing(Tail(banks))

\* setTimeout(saveAsync, 300) in a render of state, past the isHydrated test.
SaveTimer(state) ==
  IF state.isHydrated THEN [armed |-> TRUE, banks |-> state.studyBanks] ELSE NoTimer

\* An effect whose cleanup does not clear the timer: a timer that is armed
\* stays as it is. C12 tells it from the code's.
TimerAfter_NoCleanup(old, new, replaced) ==
  IF (replaced \/ new.isHydrated # old.isHydrated) /\ ~timer.armed
  THEN SaveTimer(new) ELSE timer

\* The debounced-save effect (deps studyBanks, isHydrated): its cleanup
\* clears the timer, and it arms a new one once the state is hydrated.
TimerAfter(old, new, replaced) ==
  IF replaced \/ new.isHydrated # old.isHydrated THEN SaveTimer(new) ELSE timer

\* The incremental-save effect (deps studyBanks, currentChunk, isProcessing):
\* the calls it issues after a render.
IncrementalSaves(old, new, replaced) ==
  IF /\ \/ replaced
        \/ new.processingStatus.currentChunk # old.processingStatus.currentChunk
        \/ new.processingStatus.isProcessing # old.processingStatus.isProcessing
     /\ new.processingStatus.isProcessing
  THEN LET found == FindProcessing(new.studyBanks)
       IN IF found = <<>> THEN <<>>
          ELSE <<Op("saveStudyBankIncremental", found, found[1].id)>>
  ELSE <<>>

\* The largest processedChunks among the incremental saves of bank id in ops.
RECURSIVE SavedUpTo(_, _, _)
SavedUpTo(ops, id, k) ==
  IF ops = <<>> THEN k
  ELSE LET o == Head(ops)
           c == IF o.op = "saveStudyBankIncremental" /\ o.id = id
                   /\ o.banks[1].processedChunks > k
                THEN o.banks[1].processedChunks ELSE k
       IN SavedUpTo(Tail(ops), id, c)

\* One synchronous block of the program: the storage calls it makes itself
\* (first), its dispatches, the render and the effects that follow. r and ld
\* are the positions processFile and loadAsync are left in.
Render(actions, first, r, ld) ==
  LET old == State
      new == Reduce(old, actions)
      replaced == BanksReplaced(old, actions)
      ops == first \o IncrementalSaves(old, new, replaced)
  IN /\ Len(pending) + Len(ops) <= MaxPending
     /\ Rendered(new)
     /\ timer' = TimerAfter(old, new, replaced)
     /\ pending' = pending \o ops
     /\ run' = [r EXCEPT !.incSaved = SavedUpTo(ops, r.bankId, @)]
     /\ load' = ld

\* loadInitialState()
loadInitialState(m) ==
  LET banks == LoadStudyBanksSync(m)
      cleanedBanks == CleanedBanks(banks)
  IN [studyBanks |-> cleanedBanks,
      activeBank |-> IF Len(cleanedBanks) > 0 THEN cleanedBanks[1] ELSE Null,
      processingStatus |-> Idle,
      isHydrated |-> Len(banks) > 0]

\* The page loads: the module's initialState, StudyProvider's first render
\* and its mount effects (loadAsync starts; the save timer is armed when the
\* state is hydrated already; nothing is processing).
Mounted(m, reloads) ==
  LET s == loadInitialState(m)
  IN [state |-> s, timer |-> SaveTimer(s),
      load |-> [status |-> "pending", mountLen |-> Len(s.studyBanks), last |-> "initial",
                reloads |-> reloads]]

\* A first visit: both stores are empty.
Init ==
  /\ idb = {} /\ ls = <<>>
  /\ studyBanks = Mounted(<<>>, 0).state.studyBanks
  /\ activeBank = Mounted(<<>>, 0).state.activeBank
  /\ processingStatus = Mounted(<<>>, 0).state.processingStatus
  /\ isHydrated = Mounted(<<>>, 0).state.isHydrated
  /\ timer = Mounted(<<>>, 0).timer
  /\ load = Mounted(<<>>, 0).load
  /\ pending = <<>> /\ run = NoRun /\ issued = {} /\ atReload = Null
  /\ chunker = NoChunker
  /\ parser = NoParser
  /\ provider = NoProvider
  /\ stream = NoStream
  /\ config = NoConfig
  /\ lastCall = NoCall /\ prevCall = NoCall /\ ret = Pending
  /\ history = NoHistory
  /\ chunkCall = NoChunkCall

\* processFile has created its bank and has not returned.
RunInProgress == run.pc \in {"waiting", "chunk"}

Touched == [load EXCEPT !.last = "none"]

\* The page is reloaded (or closed and opened again): memory, timers and the
\* storage calls in flight are gone, the stores stay.
Reload ==
  /\ load.reloads < MaxReloads
  /\ Rendered(Mounted(ls, load.reloads + 1).state)
  /\ timer' = Mounted(ls, load.reloads + 1).timer
  /\ load' = Mounted(ls, load.reloads + 1).load
  /\ pending' = <<>>
  /\ run' = NoRun
  /\ atReload' = IF RunInProgress /\ \E b \in idb : b.id = run.bankId
                 THEN CHOOSE b \in idb : b.id = run.bankId
                 ELSE atReload
  /\ UNCHANGED <<storeVars, issued, notApp>>

\* loadAsync: loadStudyBanks() resolves and its result is dispatched. The
\* length compared with is that of the state loadAsync was created in.
LoadCompletes ==
  /\ load.status = "pending"
  /\ LET r == LoadStudyBanks(idb, ls, "none", "none", "ok")
         banks == r.ret.value
         action == IF Len(banks) > load.mountLen
                   THEN [type |-> "LOAD_BANKS", payload |-> CleanedBanks(banks)]
                   ELSE [type |-> "SET_HYDRATED", payload |-> <<>>]
     IN /\ idb' = r.idb
        /\ ls' = r.ls
        /\ Render(<<action>>, <<>>, run,
                  [load EXCEPT !.status = "done", !.last = action.type])
  /\ UNCHANGED <<issued, atReload, notApp>>

\* FileUpload's isExtracting: set when processFile starts, cleared in its
\* finally block.
IsExtracting == run.pc \in {"extracting", "waiting", "chunk"}

\* A FileUpload that shows its button at all times. C14 tells it from the
\* code's.
ButtonShown_Always == TRUE

\* The 'Generate Study Materials' button is rendered: selectedFile &&
\* !isProcessing, where isProcessing = isExtracting || processingStatus.isProcessing.
ButtonShown == ~(IsExtracting \/ processingStatus.isProcessing)

\* The user starts processFile on a selected file.
ProcessFileCalled ==
  /\ ButtonShown
  /\ run' = [NoRun EXCEPT !.pc = "extracting"]
  /\ UNCHANGED <<memVars, storeVars, pending, timer, load, issued, atReload, notApp>>

\* A catch block that also discards the bank of the run. C16 tells it from
\* the code's.
CatchBlock_Discard(bankId) ==
  <<[type |-> "DELETE_BANK", payload |-> bankId],
    [type |-> "SET_PROCESSING_STATUS", payload |-> Idle]>>

\* A catch block that reports a run under way. C24 tells it from the code's.
CatchBlock_Busy(bankId) ==
  <<[type |-> "SET_PROCESSING_STATUS", payload |-> Working(0, 0)]>>

\* What processFile's catch block dispatches: the idle status. (setError,
\* setIsExtracting and setExtractionProgress are FileUpload's own state.)
CatchBlock(bankId) == <<[type |-> "SET_PROCESSING_STATUS", payload |-> Idle]>>

\* extractText resolves. An empty text throws into the catch block; otherwise
\* the text is chunked, and createStudyBank and the first setProcessingStatus
\* follow in the same block.
ExtractTextSettles ==
  /\ run.pc = "extracting"
  /\ \E doc \in Documents :
       IF doc = <<>>
       THEN /\ Render(CatchBlock(run.bankId), <<>>, [run EXCEPT !.pc = "failed"], Touched)
            /\ issued' = issued
       ELSE \E id \in BankIds \ issued :
              LET bank == NewBank(id, Len(doc))
              IN /\ issued' = issued \cup {id}
                 /\ Render(<<[type |-> "ADD_BANK", payload |-> bank],
                          [type |-> "SET_ACTIVE_BANK", payload |-> bank],
                          [type |-> "SET_PROCESSING_STATUS",
                           payload |-> Working(0, Len(doc))]>>,
                        <<Op("saveStudyBankIncremental", <<bank>>, id)>>,
                        [run EXCEPT !.pc = "waiting", !.bankId = id, !.n = Len(doc),
                                    !.kinds = doc],
                        Touched)
  /\ UNCHANGED <<storeVars, atReload, notApp>>

\* A loop that goes over the same chunk again. C13 tells it from the code's.
LoopStep_Again(i) == i

\* for (let i = 0; i < chunks.length; i++): the step of the loop.
LoopStep(i) == i + 1

\* The pause before a chunk is over (100 ms before the first, 500 ms between
\* chunks): the loop sets the status of chunk i and, 50 ms later, calls
\* processChunk for it.
PauseElapses ==
  /\ run.pc = "waiting"
  /\ Render(<<[type |-> "SET_PROCESSING_STATUS", payload |-> Working(run.i + 1, run.n)]>>,
            <<>>, [run EXCEPT !.pc = "chunk", !.calls = Append(@, run.i)], Touched)
  /\ UNCHANGED <<storeVars, issued, atReload, notApp>>

\* processChunk(chunks[i].text, i, n) resolves and its result is appended; after
\* the last chunk finishProcessing follows in the same block.
ProcessChunkSettles ==
  /\ run.pc = "chunk"
  /\ \E outcome \in IF run.kinds[run.i + 1] = "long" THEN ProviderOutcomes ELSE {"none"} :
       LET append == [type |-> "APPEND_CHUNK_RESULTS",
                      payload |-> [bankId |-> run.bankId, chunkIndex |-> run.i,
                                   results |-> processChunk(run.kinds[run.i + 1], outcome)]]
           last == run.i = run.n - 1
           r == [run EXCEPT !.pc = IF last THEN "finished" ELSE "waiting",
                            !.i = LoopStep(@),
                            !.dispatched = Append(@, run.i),
                            !.allFailed = @ /\ outcome \in {"fails", "none"},
                            !.appended = IF FindIndex(studyBanks, run.bankId) > 0
                                         THEN run.i + 1 ELSE @]
       IN Render(IF last
                 THEN <<append, [type |-> "FINISH_PROCESSING", payload |-> run.bankId]>>
                 ELSE <<append>>,
                 <<>>, r, Touched)
  /\ UNCHANGED <<storeVars, issued, atReload, notApp>>

\* processChunk rejects: building the prompt reads localStorage outside the
\* try block (getCustomInstructions), and a throw there leaves processChunk.
\* processFile's catch block resets the status; it dispatches nothing else.
ProcessChunkRejects ==
  /\ run.pc = "chunk"
  /\ run.kinds[run.i + 1] = "long"
  /\ Render(CatchBlock(run.bankId), <<>>, [run EXCEPT !.pc = "failed"], Touched)
  /\ UNCHANGED <<storeVars, issued, atReload, notApp>>

\* The 300 ms timer fires: saveAsync calls saveStudyBanks(state.studyBanks)
\* with the banks of the render that armed the timer.
TimerFires ==
  /\ timer.armed
  /\ Len(pending) < MaxPending
  /\ pending' = Append(pending, Op("saveStudyBanks", timer.banks, 0))
  /\ timer' = NoTimer
  /\ UNCHANGED <<memVars, storeVars, run, load, issued, atReload, notApp>>

\* A saveStudyBankIncremental of bank id has been issued and has not completed.
SaveInFlight(id) ==
  \E k \in 1..Len(pending) :
    pending[k].op = "saveStudyBankIncremental" /\ pending[k].id = id

\* The user deletes a bank from the list, which is shown once isHydrated:
\* deleteBank dispatches and calls deleteStudyBank before the render.
UserDeletesBank ==
  /\ isHydrated
  /\ \E id \in IdsOf(studyBanks) :
       /\ Render(<<[type |-> "DELETE_BANK", payload |-> id]>>,
                 <<Op("deleteStudyBank", <<>>, id)>>,
                 [run EXCEPT !.raced = @ \/ (id = run.bankId /\ SaveInFlight(id))],
                 Touched)
       /\ atReload' = IF atReload.id = id THEN Null ELSE atReload
  /\ UNCHANGED <<storeVars, issued, notApp>>

\* What the oldest storage call in flight does to the stores.
StoresAfter(o) ==
  CASE o.op = "saveStudyBanks" -> SaveStudyBanks(idb, ls, o.banks, "none", "ok")
    [] o.op = "saveStudyBankIncremental" ->
         SaveStudyBankIncremental(idb, ls, o.banks[1], "none", "ok")
    [] OTHER -> DeleteStudyBank(idb, ls, o.id, "none", "ok")

\* The IndexedDB transaction of the oldest call completes. Connections to the
\* database are opened in the order asked for, loadAsync's first.
IdbStage ==
  /\ pending # <<>>
  /\ Head(pending).stage = "idb"
  /\ load.status = "done"
  /\ idb' = StoresAfter(Head(pending)).idb
  /\ pending' = [pending EXCEPT ![1].stage = "mirror"]
  /\ UNCHANGED <<memVars, ls, run, timer, load, issued, atReload, notApp>>

\* The call goes on to write the localStorage mirror and resolves.
MirrorStage ==
  /\ pending # <<>>
  /\ Head(pending).stage = "mirror"
  /\ ls' = StoresAfter(Head(pending)).ls
  /\ pending' = Tail(pending)
  /\ UNCHANGED <<memVars, idb, run, timer, load, issued, atReload, notApp>>

Next ==
  \/ Reload
  \/ LoadCompletes
  \/ ProcessFileCalled
  \/ ExtractTextSettles
  \/ PauseElapses
  \/ ProcessChunkSettles
  \/ ProcessChunkRejects
  \/ TimerFires
  \/ UserDeletesBank
  \/ IdbStage
  \/ MirrorStage

Spec == Init /\ [][Next]_vars

(***************************************************************************)
(* Spec: reload and load                                                   *)
(***************************************************************************)
IsPrefix(s, t) == Len(s) <= Len(t) /\ \A k \in 1..Len(s) : s[k] = t[k]

\* Bank b holds everything bank d holds.
Covers(b, d) ==
  /\ b.processedChunks >= d.processedChunks
  /\ IsPrefix(d.flashcards, b.flashcards)
  /\ IsPrefix(d.mcqs, b.mcqs)
  /\ IsPrefix(d.fillBlanks, b.fillBlanks)
  /\ IsPrefix(d.shortAnswers, b.shortAnswers)

\* C1 (crash resilience): after a reload during a run, no save replaces the
\* durable copy of the run's bank by one that holds less than the durable copy
\* held at the reload, and once loadAsync has dispatched, the bank in memory
\* holds all of it. (A bank the user deletes afterwards is no longer owed.)
C1_CrashResilience ==
  atReload # Null =>
    /\ \A b \in idb : b.id = atReload.id => Covers(b, atReload)
    /\ load.status = "done" =>
         \E k \in 1..Len(studyBanks) :
           studyBanks[k].id = atReload.id /\ Covers(studyBanks[k], atReload)

\* C2 (reload recovery): right after banks have been loaded into memory, by
\* loadInitialState at page load or by LOAD_BANKS, no bank in memory has
\* isProcessing set, whatever the stores held.
C2_ReloadRecovery ==
  load.last \in {"initial", "LOAD_BANKS"} =>
    \A k \in 1..Len(studyBanks) : ~studyBanks[k].isProcessing

\* LOAD_BANKS has just brought in a bank whose durable copy has isProcessing set.
C2_Witness ==
  /\ load.last = "LOAD_BANKS"
  /\ \E b \in idb : b.isProcessing /\ b.id \in IdsOf(studyBanks)

(***************************************************************************)
(* Spec: the debounced save                                                *)
(***************************************************************************)
\* This step issues a saveStudyBanks call.
SaveStudyBanksIssued ==
  /\ Len(pending') = Len(pending) + 1
  /\ pending'[Len(pending')].op = "saveStudyBanks"
  /\ pending'[Len(pending')].stage = "idb"

C13_SequentialChunks ==
  [][/\ \A k \in 1..Len(run'.calls) : run'.calls[k] = k - 1
     /\ \A k \in 1..Len(run'.dispatched) : run'.dispatched[k] = k - 1
     /\ Len(run'.calls) <= run'.n
     /\ Len(run'.calls) - Len(run'.dispatched) \in {0, 1}
     /\ run'.pc = "chunk" => Len(run'.calls) = Len(run'.dispatched) + 1
     /\ Len(run'.calls) > Len(run'.dispatched) => run'.pc \in {"chunk", "failed"}
     /\ run'.pc = "finished" => Len(run'.dispatched) = run'.n
     /\ Len(run'.calls) > Len(run.calls) =>
          /\ run.pc = "waiting"
          /\ Len(run.dispatched) = Len(run.calls)
          /\ Len(run'.calls) = Len(run.calls) + 1]_vars

\* C13 witness: a run over the largest document has finished.
C13_Witness ==
  /\ run.pc = "finished"
  /\ run.n = MaxChunks
  /\ Len(run.calls) = MaxChunks
  /\ Len(run.dispatched) = MaxChunks

\* C14 (single active run): processFile starts only when no run is under
\* way, neither extracting nor processing, and processingStatus.isProcessing
\* is false; and processingStatus.isProcessing is true only while the run
\* that set it is under way.
C14_SingleActiveRun ==
  [][/\ (run'.pc = "extracting" /\ run.pc # "extracting") =>
          /\ run.pc \in {"idle", "finished", "failed"}
          /\ ~processingStatus.isProcessing
     /\ processingStatus'.isProcessing => run'.pc \in {"waiting", "chunk"}]_vars

\* C14 witness: a second run has started in a session whose first run has
\* finished.
C14_Witness ==
  /\ run.pc = "extracting"
  /\ load.reloads = 0
  /\ \E k \in 1..Len(studyBanks) :
       studyBanks[k].processedChunks > 0 /\ ~studyBanks[k].isProcessing

\* The run's bank, as memory holds it: a list of at most one bank.
RunBank == SelectSeq(studyBanks, LAMBDA b : b.id = run.bankId)

\* C15 (processing flag lifecycle): while its run is under way the run's bank
\* has isProcessing true, and once the run has ended, with its last chunk or
\* with an error, it has isProcessing false.
C15_ProcessingFlagLifecycle ==
  \A k \in 1..Len(RunBank) :
    /\ run.pc \in {"waiting", "chunk"} => RunBank[k].isProcessing
    /\ run.pc \in {"finished", "failed"} => ~RunBank[k].isProcessing

ItemsOfBank(b) ==
  SeqToSet(b.flashcards) \cup SeqToSet(b.mcqs) \cup SeqToSet(b.fillBlanks)
    \cup SeqToSet(b.shortAnswers)

\* C16 (error outcome): when the loop aborts after the results of k chunks
\* were dispatched, the step leaves processingStatus idle and the collection
\* as it was, and the run's bank, where memory holds it, has processedChunks
\* = k and items of chunks 0..k-1 only.
C16_ErrorOutcome ==
  [][(run.pc = "chunk" /\ run'.pc = "failed") =>
       /\ processingStatus' = Idle
       /\ studyBanks' = studyBanks
       /\ \A j \in 1..Len(studyBanks') :
            studyBanks'[j].id = run'.bankId =>
              /\ studyBanks'[j].processedChunks = Len(run'.dispatched)
              /\ \A x \in ItemsOfBank(studyBanks'[j]) : x.chunkIndex < Len(run'.dispatched)]_vars

\* C16 witness: the loop aborted on its second chunk, and the bank holds the
\* items of the first.
C16_Witness ==
  /\ run.pc = "failed"
  /\ Len(run.dispatched) = 1
  /\ processingStatus = Idle
  /\ \E j \in 1..Len(studyBanks) :
       /\ studyBanks[j].id = run.bankId
       /\ studyBanks[j].processedChunks = 1
       /\ studyBanks[j].flashcards # <<>>

\* C24 (input error): when the extracted text is empty once trimmed, the
\* step that surfaces the error creates no bank (no id is taken, the
\* collection is as it was), chunks nothing, issues no storage call and
\* changes neither store, and processingStatus.isProcessing is false before
\* and after it, as it is all through the extraction.
C24_InputError ==
  [][/\ run'.pc = "extracting" => ~processingStatus'.isProcessing
     /\ (run.pc = "extracting" /\ run'.pc = "failed") =>
          /\ studyBanks' = studyBanks
          /\ issued' = issued
          /\ run'.bankId = 0 /\ run'.n = 0 /\ run'.kinds = <<>>
          /\ pending' = pending
          /\ idb' = idb /\ ls' = ls
          /\ ~processingStatus.isProcessing
          /\ ~processingStatus'.isProcessing]_vars

\* C24 witness: an extraction gave an empty text and the run failed with no
\* bank of its own, while the collection holds a bank of an earlier run.
C24_Witness ==
  /\ run.pc = "failed"
  /\ run.bankId = 0
  /\ run.kinds = <<>>
  /\ studyBanks # <<>>
  /\ ~processingStatus.isProcessing

\* C27 (no save before the load): the debounced save calls saveStudyBanks
\* only once loadAsync has dispatched what it loaded, so what it writes is
\* never the collection read from the mirror alone at mount.
C27_NoSaveBeforeLoad ==
  [][(/\ Len(pending') = Len(pending) + 1
      /\ pending'[Len(pending')].op = "saveStudyBanks")
       => load.status = "done"]_vars

\* C6 (end-to-end completion): when a run in which no provider call succeeded
\* returns, every chunk has been processed, processingStatus is idle and the
\* run's bank is in memory with processedChunks = totalChunks = n,
\* isProcessing false and at least one flashcard.
C6_EndToEndCompletion ==
  [][(run.pc = "chunk" /\ run'.pc = "finished" /\ run'.allFailed) =>
       /\ run'.i = run'.n
       /\ processingStatus' = Idle
       /\ \E k \in 1..Len(studyBanks') :
            LET b == studyBanks'[k]
            IN /\ b.id = run'.bankId
               /\ b.processedChunks = run'.n
               /\ b.totalChunks = run'.n
               /\ ~b.isProcessing
               /\ b.flashcards # <<>>]_vars

\* C7 (incremental save on every chunk): once the results of chunks 0..k-1 of
\* the run have been appended to its bank, a saveStudyBankIncremental of that
\* bank with processedChunks >= k has been issued.
C7_IncrementalSaveEveryChunk ==
  run.appended > 0 => run.incSaved >= run.appended

\* This step is the user deleting bank id: its deleteStudyBank call is issued.
DeletedByUser(id) ==
  \E k \in (Len(pending) + 1)..Len(pending') :
    pending'[k].op = "deleteStudyBank" /\ pending'[k].id = id

\* C32 (a created bank stays): the bank processFile created since the page
\* was loaded stays in the in-memory collection in every step but the one in
\* which the user deletes it; a load that completes leaves it there.
C32_CreatedBankStays ==
  [][(/\ run.bankId \in IdsOf(studyBanks)
      /\ load'.reloads = load.reloads
      /\ ~DeletedByUser(run.bankId))
       => run.bankId \in IdsOf(studyBanks')]_vars

WritesCompleted == pending = <<>> /\ ~timer.armed /\ load.status = "done"

C36_OneProcessingBank ==
  /\ Cardinality({k \in 1..Len(studyBanks) : studyBanks[k].isProcessing}) <= 1
  /\ RunInProgress =>
       \A k \in 1..Len(FindProcessing(studyBanks)) :
         FindProcessing(studyBanks)[k].id = run.bankId

\* The variables of the specifications above, where none of them runs.
CoreUnused ==
  /\ MemoryUnused
  /\ StoreUnused
  /\ pending = <<>> /\ run = NoRun /\ timer = NoTimer /\ load = NoLoad
  /\ issued = {} /\ atReload = Null
  /\ history = NoHistory
  /\ chunkCall = NoChunkCall

(***************************************************************************)
(* SpecChunker: the chunker of src/src/utils/progress.ts.                  *)
(*                                                                         *)
(* A text is a sequence of tokens: "w" is a word, "." is a word ending in  *)
(* one of . ! ? (a sentence ending), " " is a run of whitespace beyond the *)
(* single separator between two adjacent words.  Word indexes are the      *)
(* code's: they start at 0.                                                *)
(***************************************************************************)

\* The longest text, in words, and the most sentence endings in a text.
MaxWords == 104
MaxStops == 1

\* findBestSplitPoint's searchRange parameter; chunkText relies on its default.
SearchRange == 50

\* The options chunkText and estimateChunkCount are called with.
ChunkOptions ==
  { [chunkSize |-> 50, overlapSize |-> 0],
    [chunkSize |-> 51, overlapSize |-> 2],
    [chunkSize |-> 52, overlapSize |-> 1] }

\* The sets of at most k word indexes below n.
RECURSIVE StopSets(_, _)
StopSets(n, k) ==
  IF k = 0 THEN {{}}
  ELSE LET fewer == StopSets(n, k - 1)
       IN fewer \cup {S \cup {i} : S \in fewer, i \in 0..(n - 1)}

\* The text of n words whose sentence endings are the words at the indexes
\* of stops, behind a run of whitespace when padded.
TextOf(n, stops, padded) ==
  (IF padded THEN <<" ">> ELSE <<>>)
    \o [j \in 1..n |-> IF (j - 1) \in stops THEN "." ELSE "w"]

ChunkerTexts ==
  UNION { {TextOf(n, stops, padded) :
             stops \in StopSets(n, MaxStops), padded \in BOOLEAN} :
          n \in 0..MaxWords }

\* tokenizeText: whitespace is trimmed and collapsed, and the text is split
\* on it; the words remain.
tokenizeText(text) == SelectSeq(text, LAMBDA t : t # " ")

\* /[.!?]$/.test(word)
EndsSentence(word) == word = "."

\* Array.prototype.slice(from, to) on non-negative indexes.
Slice(words, from, to) == SubSeq(words, from + 1, to)

Min2(a, b) == IF a <= b THEN a ELSE b
Max2(a, b) == IF a >= b THEN a ELSE b

\* The first loop of findBestSplitPoint; -1 when it runs out.
RECURSIVE ScanForward(_, _, _)
ScanForward(words, i, maxIndex) ==
  IF i > maxIndex THEN -1
  ELSE IF (i + 1) \in DOMAIN words /\ EndsSentence(words[i + 1]) THEN i + 1
  ELSE ScanForward(words, i + 1, maxIndex)

\* The second loop of findBestSplitPoint; -1 when it runs out.
RECURSIVE ScanBackward(_, _, _)
ScanBackward(words, i, minIndex) ==
  IF i < minIndex THEN -1
  ELSE IF (i + 1) \in DOMAIN words /\ EndsSentence(words[i + 1]) THEN i + 1
  ELSE ScanBackward(words, i - 1, minIndex)

findBestSplitPoint(words, targetIndex) ==
  LET minIndex == Max2(0, targetIndex - SearchRange)
      maxIndex == Min2(Len(words) - 1, targetIndex + SearchRange)
      ahead == ScanForward(words, targetIndex, maxIndex)
      behind == ScanBackward(words, targetIndex - 1, minIndex)
  IN IF ahead # -1 THEN ahead
     ELSE IF behind # -1 THEN behind
     ELSE targetIndex

\* A TextChunk; text is the chunk's words (the code joins them with spaces).
TextChunk(index, chunkWords, startWord, endWord) ==
  [index |-> index, text |-> chunkWords, wordCount |-> Len(chunkWords),
   startWord |-> startWord, endWord |-> endWord]

\* A next start that leaves the word after the split point out. C19 tells it
\* from the code's.
NextStart_Gap(currentStart, actualEnd, overlapSize) == actualEnd + 1

\* Where the next chunk starts: overlapSize words before the split point, or
\* at the split point when that would not be past the chunk just pushed.
NextStart(currentStart, actualEnd, overlapSize) ==
  IF actualEnd - overlapSize <= currentStart THEN actualEnd
  ELSE actualEnd - overlapSize

\* One pass through the body of chunkText's while loop: the chunks with the
\* one pushed, whether the loop was left by break, and the next currentStart.
LoopBody(words, chunkSize, overlapSize, currentStart, chunks) ==
  LET totalWords == Len(words)
      idealEnd == currentStart + chunkSize
      actualEnd == findBestSplitPoint(words, idealEnd)
  IN IF idealEnd >= totalWords
     THEN [break |-> TRUE, currentStart |-> currentStart,
           chunks |-> Append(chunks,
                             TextChunk(Len(chunks), Slice(words, currentStart, totalWords),
                                       currentStart, totalWords - 1))]
     ELSE [break |-> FALSE,
           currentStart |-> NextStart(currentStart, actualEnd, overlapSize),
           chunks |-> Append(chunks,
                             TextChunk(Len(chunks), Slice(words, currentStart, actualEnd),
                                       currentStart, actualEnd - 1))]

\* The while loop of chunkText, from currentStart, with chunks pushed so far.
RECURSIVE ChunkLoop(_, _, _, _, _)
ChunkLoop(words, chunkSize, overlapSize, currentStart, chunks) ==
  IF ~(currentStart < Len(words)) THEN chunks
  ELSE LET pass == LoopBody(words, chunkSize, overlapSize, currentStart, chunks)
       IN IF pass.break THEN pass.chunks
          ELSE ChunkLoop(words, chunkSize, overlapSize, pass.currentStart, pass.chunks)

chunkText(text, chunkSize, overlapSize) ==
  LET words == tokenizeText(text)
      totalWords == Len(words)
  IN IF totalWords = 0 THEN <<>>
     ELSE IF totalWords <= chunkSize
     THEN <<TextChunk(0, words, 0, totalWords - 1)>>
     ELSE ChunkLoop(words, chunkSize, overlapSize, 0, <<>>)

\* Math.ceil(a / b) for b > 0.
Ceil(a, b) == -((-a) \div b)

estimateChunkCount(text, chunkSize, overlapSize) ==
  LET totalWords == Len(tokenizeText(text))
  IN IF totalWords <= chunkSize THEN 1
     ELSE Ceil(totalWords - overlapSize, chunkSize - overlapSize)

InitChunker ==
  /\ \E text \in ChunkerTexts, options \in ChunkOptions :
       chunker = [NoChunker EXCEPT !.text = text,
                                   !.chunkSize = options.chunkSize,
                                   !.overlapSize = options.overlapSize]
  /\ CoreUnused
  /\ parser = NoParser /\ provider = NoProvider /\ stream = NoStream /\ config = NoConfig

ChunkTextCalled ==
  /\ ~chunker.chunked
  /\ chunker' = [chunker EXCEPT
       !.chunked = TRUE,
       !.chunks = chunkText(chunker.text, chunker.chunkSize, chunker.overlapSize)]
  /\ UNCHANGED notChunker

EstimateChunkCountCalled ==
  /\ ~chunker.estimated
  /\ chunker' = [chunker EXCEPT
       !.estimated = TRUE,
       !.estimate = estimateChunkCount(chunker.text, chunker.chunkSize,
                                       chunker.overlapSize)]
  /\ UNCHANGED notChunker

NextChunker ==
  \/ ChunkTextCalled
  \/ EstimateChunkCountCalled

SpecChunker == InitChunker /\ [][NextChunker]_vars

\* The words of the text the chunker was given.
ChunkerWords == tokenizeText(chunker.text)

\* C17 (chunk count agreement): for every text and options, chunkText
\* returns as many chunks as estimateChunkCount returns.
C17_ChunkCountAgreement ==
  (chunker.chunked /\ chunker.estimated) => Len(chunker.chunks) = chunker.estimate

\* C18 (chunk boundedness): when chunkText returns more than one chunk, no
\* chunk has more than chunkSize + 50 words.
C18_ChunkBoundedness ==
  (chunker.chunked /\ Len(chunker.chunks) > 1) =>
     \A k \in 1..Len(chunker.chunks) :
        chunker.chunks[k].wordCount <= chunker.chunkSize + SearchRange

\* C19 (chunk coverage): when chunkText returns chunks, the first starts at
\* word 0, the last ends at the last word, every later chunk starts no later
\* than one past the end of the chunk before it, and so every word index is
\* in the range of some chunk.
C19_ChunkCoverage ==
  (chunker.chunked /\ chunker.chunks # <<>>) =>
     LET chunks == chunker.chunks
     IN /\ chunks[1].startWord = 0
        /\ chunks[Len(chunks)].endWord = Len(ChunkerWords) - 1
        /\ \A k \in 2..Len(chunks) : chunks[k].startWord <= chunks[k - 1].endWord + 1
        /\ \A w \in 0..(Len(ChunkerWords) - 1) :
             \E k \in 1..Len(chunks) :
                chunks[k].startWord <= w /\ w <= chunks[k].endWord

\* C19 witness: three chunks, the first split at a sentence ending away from
\* the ideal end, and a chunk that starts right after the one before it.
C19_Witness ==
  /\ chunker.chunked
  /\ Len(chunker.chunks) >= 3
  /\ chunker.chunks[1].wordCount # chunker.chunkSize
  /\ \E k \in 2..Len(chunker.chunks) :
       chunker.chunks[k].startWord = chunker.chunks[k - 1].endWord + 1

\* C20 (single-chunk shortcut): for a text of at most chunkSize words,
\* chunkText returns exactly one chunk, which spans the whole text.
C20_SingleChunkShortcut ==
  (chunker.chunked /\ Len(ChunkerWords) <= chunker.chunkSize) =>
     /\ Len(chunker.chunks) = 1
     /\ chunker.chunks[1].startWord = 0
     /\ chunker.chunks[1].endWord = Len(ChunkerWords) - 1
     /\ chunker.chunks[1].wordCount = Len(ChunkerWords)
     /\ chunker.chunks[1].text = ChunkerWords

\* C39 (no redundant chunk): when chunkText returns more than one chunk,
\* every chunk after the first, the last included, has a word index that
\* the chunk before it does not have: its range is not inside that chunk's.
C39_NoRedundantChunk ==
  (chunker.chunked /\ Len(chunker.chunks) > 1) =>
     \A k \in 2..Len(chunker.chunks) :
        \E w \in chunker.chunks[k].startWord..chunker.chunks[k].endWord :
           w < chunker.chunks[k - 1].startWord \/ w > chunker.chunks[k - 1].endWord

(***************************************************************************)
(* SpecParser: parseAIResponse of src/src/utils/aiAdapter.ts on responses   *)
(* of every shape.                                                         *)
(***************************************************************************)
\* The lists a response's JSON object can hold under one of the four keys:
\* none (or a value that is not an array), usable entries, entries lacking a
\* field, a null entry, an entry that is not an object ("scalar": a number or
\* a string; reading a field of it gives undefined).
EntryLists(tag) ==
  { <<>>,
    <<Raw("ok", <<tag, 1>>)>>,
    <<Raw("ok", <<tag, 1>>), Raw("incomplete", <<tag, 2>>)>>,
    <<Raw("ok", <<tag, 1>>), Raw("null", <<tag, 2>>)>>,
    <<Raw("scalar", <<tag, 1>>), Raw("ok", <<tag, 2>>)>> }

\* What parseAIResponse can be given: a value that is not a string
\* ("undefined": response.trim throws), a text with no {...} in it, one whose
\* {...} JSON.parse refuses, and texts holding a JSON object.
ParserResponses ==
  {[json |-> j, flashcards |-> <<>>, mcqs |-> <<>>, fillBlanks |-> <<>>,
    shortAnswers |-> <<>>] : j \in {"undefined", "none", "invalid"}}
  \cup
  {[json |-> "object", flashcards |-> f, mcqs |-> m, fillBlanks |-> b,
    shortAnswers |-> a] :
     f \in EntryLists("f"), m \in EntryLists("m"), b \in EntryLists("b"),
     a \in EntryLists("a")}

\* Whether the try block of parseAIResponse throws on the response.
TryThrows(response) ==
  \/ response.json \in {"undefined", "invalid"}
  \/ /\ response.json = "object"
     /\ \/ ParseList(response.flashcards).threw
        \/ ParseList(response.mcqs).threw
        \/ ParseList(response.fillBlanks).threw
        \/ ParseList(response.shortAnswers).threw

\* A parseAIResponse without its catch. C21 tells it from the code's.
ParseSettled_NoCatch(p, response) ==
  [p EXCEPT !.called = TRUE,
            !.outcome = IF TryThrows(response) THEN "threw" ELSE "returned",
            !.result = parseAIResponse(response)]

\* The call returns: whatever the try block threw was caught and logged.
ParseSettled(p, response) ==
  [p EXCEPT !.called = TRUE, !.outcome = "returned",
            !.result = parseAIResponse(response)]

InitParser ==
  /\ \E response \in ParserResponses : parser = [NoParser EXCEPT !.response = response]
  /\ CoreUnused
  /\ chunker = NoChunker /\ provider = NoProvider /\ stream = NoStream /\ config = NoConfig

ParseAIResponseCalled ==
  /\ ~parser.called
  /\ parser' = ParseSettled(parser, parser.response)
  /\ UNCHANGED notParser

NextParser == ParseAIResponseCalled

SpecParser == InitParser /\ [][NextParser]_vars

\* C21 (parser robustness): parseAIResponse never throws, and returns four
\* empty arrays when the response holds no {...} substring or one that is not
\* valid JSON.
C21_ParserRobustness ==
  parser.called =>
    /\ parser.outcome = "returned"
    /\ parser.response.json \in {"none", "invalid"} => parser.result = EmptyResult

\* C21 witness: a response whose {...} is not valid JSON came back as the
\* empty result.
C21_Witness ==
  /\ parser.called
  /\ parser.outcome = "returned"
  /\ parser.response.json = "invalid"
  /\ parser.result = EmptyResult

\* parseAIResponse's result as a function of the key.
ListOf(r, key) ==
  CASE key = "flashcards" -> r.flashcards
    [] key = "mcqs" -> r.mcqs
    [] key = "fillBlanks" -> r.fillBlanks
    [] OTHER -> r.shortAnswers

ListKeys == {"flashcards", "mcqs", "fillBlanks", "shortAnswers"}

\* Two responses that hold the same lists under every key but one.
DifferOnlyIn(r1, r2, key) ==
  /\ r1.json = r2.json
  /\ \A other \in ListKeys \ {key} : ListOf(r1, other) = ListOf(r2, other)

\* C30 (independent validation): the entries parseAIResponse keeps under one
\* key do not depend on the entries, valid or not, under another key: two
\* responses that differ under one key only get the same lists under the
\* other three.
C30_IndependentValidation ==
  parser.called =>
    \A key \in ListKeys :
      \A other \in {r \in ParserResponses : DifferOnlyIn(parser.response, r, key)} :
        \A kept \in ListKeys \ {key} :
          ListOf(parseAIResponse(other), kept) = ListOf(parser.result, kept)

(***************************************************************************)
(* SpecMcq: the mcqs branch of parseAIResponse (aiAdapter.ts 519-528) on   *)
(* one entry of parsed.mcqs with its fields spelled out. (ParseList above  *)
(* keeps of an entry only whether the filter takes it.)                    *)
(***************************************************************************)
\* The most options an entry has.
MaxOptions == 3

\* A JSON number as twice its value, so that halves are told from integers.
Num(twice) == [type |-> "number", twice |-> twice]

\* What an entry can hold as correctIndex: nothing, null, a string, or a
\* number from -1 to MaxOptions + 1 in steps of one half.
CorrectIndexValues ==
  {[type |-> t, twice |-> 0] : t \in {"undefined", "null", "string"}}
    \cup {Num(n) : n \in -2..(2 * MaxOptions + 2)}

\* m.options: an array of so many strings, or something that is no array.
OptionValues ==
  {[array |-> FALSE, length |-> 0]} \cup {[array |-> TRUE, length |-> n] : n \in 0..MaxOptions}

McqEntries ==
  [question : {"", "q"}, options : OptionValues, correctIndex : CorrectIndexValues,
   explanation : {Undefined, "why"}]

\* m => m.question && Array.isArray(m.options) && m.options.length >= 2
McqFilter(m) == m.question # "" /\ m.options.array /\ m.options.length >= 2

\* m => ({question, options, correctIndex: typeof m.correctIndex === 'number'
\*        ? m.correctIndex : 0, explanation: m.explanation || ''})
McqMap(m) ==
  [question |-> m.question,
   options |-> m.options,
   correctIndex |-> IF m.correctIndex.type = "number" THEN m.correctIndex ELSE Num(0),
   explanation |-> IF m.explanation = Undefined THEN "" ELSE m.explanation]

\* parsed.mcqs.filter(...).map(...)
ParseMcqs(entries) ==
  LET kept == SelectSeq(entries, McqFilter)
  IN [i \in 1..Len(kept) |-> McqMap(kept[i])]

InitMcq ==
  /\ \E m \in McqEntries :
       parser = [NoParser EXCEPT !.response = [NoResponse EXCEPT !.json = "object",
                                                                !.mcqs = <<m>>]]
  /\ CoreUnused
  /\ chunker = NoChunker /\ provider = NoProvider /\ stream = NoStream /\ config = NoConfig

McqsParsed ==
  /\ ~parser.called
  /\ parser' = [parser EXCEPT !.called = TRUE, !.outcome = "returned",
                              !.result = [EmptyResult EXCEPT
                                            !.mcqs = ParseMcqs(parser.response.mcqs)]]
  /\ UNCHANGED notParser

NextMcq == McqsParsed

SpecMcq == InitMcq /\ [][NextMcq]_vars

\* C38 (correctIndex in range): every MCQ parseAIResponse returns has a
\* correctIndex that is an integer with 0 <= correctIndex < options.length,
\* whatever the entry held as correctIndex.
C38_CorrectIndexInRange ==
  parser.called =>
    \A i \in 1..Len(parser.result.mcqs) :
      LET q == parser.result.mcqs[i]
      IN /\ q.correctIndex.type = "number"
         /\ q.correctIndex.twice % 2 = 0
         /\ 0 <= q.correctIndex.twice
         /\ q.correctIndex.twice < 2 * q.options.length

(***************************************************************************)
(* SpecProvider: the provider selection of aiAdapter.ts (currentConfig,     *)
(* setProvider, checkProviderStatus, callAI) and the AIProviderStatus       *)
(* component that drives it.                                               *)
(*                                                                         *)
(* provider.provider   currentConfig.provider                              *)
(* provider.checking   checkingRef.current: a checkConnection is under way *)
(* provider.probed     the provider the probe under way asks about         *)
(* provider.isConnected  the status shown, with the provider it is of      *)
(* provider.routed     the provider the last callAI call went to           *)
(* provider.last       the last step taken                                 *)
(***************************************************************************)
Providers == {"ollama", "gemini", "groq"}

\* checkConnection up to its await: nothing when a check is under way, else
\* checkProviderStatus() is called, which reads currentConfig.provider now.
CheckConnection(p) ==
  IF p.checking THEN p
  ELSE [p EXCEPT !.checking = TRUE, !.probed = p.provider]

\* saveConfig({provider, apiKey}) as setProvider calls it.
SetProvider(p, to) == [p EXCEPT !.provider = to]

\* The component mounted: its effect called checkConnection.
InitProvider ==
  /\ provider = [CheckConnection(NoProvider) EXCEPT !.last = "mount"]
  /\ CoreUnused
  /\ chunker = NoChunker /\ parser = NoParser /\ stream = NoStream /\ config = NoConfig

\* setInterval(checkConnection, 30000) fires.
IntervalFires ==
  /\ provider' = [CheckConnection(provider) EXCEPT !.last = "interval"]
  /\ UNCHANGED notProvider

\* await checkProviderStatus() settles in checkConnection.
ProviderProbeSettles ==
  /\ provider.checking
  /\ \E status \in BOOLEAN :
       provider' = [provider EXCEPT
         !.checking = FALSE, !.probed = "none",
         !.isConnected = [known |-> TRUE, of |-> provider.probed, status |-> status],
         !.last = "settled"]
  /\ UNCHANGED notProvider

\* handleProviderChange(to), up to its await.
HandleProviderChange ==
  /\ \E to \in Providers :
       provider' =
         [CheckConnection([SetProvider(provider, to) EXCEPT
                             !.isConnected = NoProvider.isConnected])
            EXCEPT !.last = "switch"]
  /\ UNCHANGED notProvider

\* callAI(prompt) is called: the switch on currentConfig.provider.
CallAICalled ==
  /\ provider' = [provider EXCEPT !.routed = provider.provider, !.last = "callAI"]
  /\ UNCHANGED notProvider

NextProvider ==
  \/ IntervalFires
  \/ ProviderProbeSettles
  \/ HandleProviderChange
  \/ CallAICalled

SpecProvider == InitProvider /\ [][NextProvider]_vars

\* C23 (provider switch): a callAI call goes to the provider selected last;
\* a switch starts a probe of the provider it selects; and once no probe is
\* under way, a reported availability is that of the selected provider.
C23_ProviderSwitch ==
  [][/\ provider'.last = "callAI" => provider'.routed = provider.provider
     /\ provider'.last = "switch" =>
          provider'.checking /\ provider'.probed = provider'.provider
     /\ (~provider'.checking /\ provider'.isConnected.known) =>
          provider'.isConnected.of = provider'.provider]_vars

(***************************************************************************)
(* SpecChunkLoop: chunkText's while loop, one pass at a time, for chunk     *)
(* sizes below the search window. chunker.pc is "idle" before the call,     *)
(* "loop" at the loop's test, "returned" after the return.                  *)
(***************************************************************************)
\* The longest text, in words.
MaxLoopWords == 8

\* The passes followed; a loop that returns makes at most one pass per word.
MaxLoopChunks == MaxLoopWords + 1

\* Every text of up to MaxLoopWords words.
LoopTexts == UNION {[1..n -> {"w", "."}] : n \in 0..MaxLoopWords}

LoopOptions == [chunkSize : 1..3, overlapSize : 0..2]

InitChunkLoop ==
  /\ \E text \in LoopTexts, options \in LoopOptions :
       chunker = [NoChunker EXCEPT !.text = text,
                                   !.chunkSize = options.chunkSize,
                                   !.overlapSize = options.overlapSize]
  /\ CoreUnused
  /\ parser = NoParser /\ provider = NoProvider /\ stream = NoStream /\ config = NoConfig

\* chunkText is called: the two early returns, or the loop is entered.
ChunkTextEntered ==
  /\ chunker.pc = "idle"
  /\ LET totalWords == Len(tokenizeText(chunker.text))
     IN chunker' =
          IF totalWords = 0 \/ totalWords <= chunker.chunkSize
          THEN [chunker EXCEPT
                  !.pc = "returned", !.chunked = TRUE,
                  !.chunks = chunkText(chunker.text, chunker.chunkSize, chunker.overlapSize)]
          ELSE [chunker EXCEPT !.pc = "loop"]
  /\ UNCHANGED notChunker

\* The loop's test and one pass through its body.
ChunkLoopPasses ==
  /\ chunker.pc = "loop"
  /\ Len(chunker.chunks) < MaxLoopChunks
  /\ LET words == tokenizeText(chunker.text)
         pass == LoopBody(words, chunker.chunkSize, chunker.overlapSize,
                          chunker.currentStart, chunker.chunks)
     IN chunker' =
          IF ~(chunker.currentStart < Len(words))
          THEN [chunker EXCEPT !.pc = "returned", !.chunked = TRUE]
          ELSE [chunker EXCEPT
                  !.chunks = pass.chunks,
                  !.currentStart = pass.currentStart,
                  !.pc = IF pass.break THEN "returned" ELSE "loop",
                  !.chunked = pass.break]
  /\ UNCHANGED notChunker

NextChunkLoop ==
  \/ ChunkTextEntered
  \/ ChunkLoopPasses

SpecChunkLoop == InitChunkLoop /\ [][NextChunkLoop]_vars

\* C28 (chunker progress and termination): for chunkSize >= 1 and
\* overlapSize >= 0, every pass of the loop that does not leave it moves
\* currentStart forward (so the loop ends), every chunk emitted has at
\* least one word, and every chunk starts at a greater word index than the
\* chunk before it.
C28_ChunkerProgress ==
  [][/\ (chunker.pc = "loop" /\ chunker'.pc = "loop") =>
          chunker'.currentStart > chunker.currentStart
     /\ \A k \in 1..Len(chunker'.chunks) :
          /\ chunker'.chunks[k].wordCount >= 1
          /\ k > 1 => chunker'.chunks[k].startWord > chunker'.chunks[k - 1].startWord]_vars

(***************************************************************************)
(* SpecStream: callOllama with a progress callback (aiAdapter.ts), reading  *)
(* the daemon's newline-delimited JSON from the response body.              *)
(*                                                                         *)
(* The daemon sends fragments, each a line: "ok" is a JSON object with a    *)
(* response field, "bad" is not JSON. Fragment k's response is the text k.  *)
(* On the wire a fragment is three pieces: the first part of its line, the  *)
(* rest of its line, and the newline; a network read delivers any number   *)
(* of the pieces that follow the last read.                                *)
(*                                                                         *)
(* stream.fragments     the kinds of the fragments sent                    *)
(* stream.pos           the pieces read so far                             *)
(* stream.fullResponse  fullResponse: the texts appended, in order         *)
(* stream.progress      the arguments onProgress was called with, in order *)
(***************************************************************************)
\* The most fragments the daemon sends in a call.
MaxFragments == 3

FragmentLists == UNION {[1..n -> {"ok", "bad"}] : n \in 0..MaxFragments}

Piece(k, part) == [k |-> k, part |-> part]

\* The body of the response, piece by piece.
RECURSIVE Wire(_, _)
Wire(fragments, k) ==
  IF k > Len(fragments) THEN <<>>
  ELSE <<Piece(k, "head"), Piece(k, "tail"), Piece(k, "nl")>> \o Wire(fragments, k + 1)

\* chunk.split('\n').filter(line => line.trim()): the lines of a decoded
\* read that are not empty; line is the line being collected.
RECURSIVE SplitLines(_, _)
SplitLines(chunk, line) ==
  IF chunk = <<>> THEN (IF line = <<>> THEN <<>> ELSE <<line>>)
  ELSE IF Head(chunk).part = "nl"
  THEN (IF line = <<>> THEN <<>> ELSE <<line>>) \o SplitLines(Tail(chunk), <<>>)
  ELSE SplitLines(Tail(chunk), Append(line, Head(chunk)))

\* JSON.parse(line) returns: the line is the whole line of an "ok" fragment.
ParsesAsJson(fragments, line) ==
  /\ Len(line) = 2
  /\ line[1].part = "head" /\ line[2].part = "tail"
  /\ line[1].k = line[2].k
  /\ fragments[line[1].k] = "ok"

\* The for loop over the lines of one read: fullResponse and the calls of
\* onProgress after it.
RECURSIVE ForLines(_, _, _, _)
ForLines(fragments, lines, fullResponse, progress) ==
  IF lines = <<>> THEN [fullResponse |-> fullResponse, progress |-> progress]
  ELSE IF ParsesAsJson(fragments, Head(lines))
  THEN LET appended == Append(fullResponse, Head(lines)[1].k)
       IN ForLines(fragments, Tail(lines), appended, Append(progress, appended))
  ELSE ForLines(fragments, Tail(lines), fullResponse, progress)

InitStream ==
  /\ \E fragments \in FragmentLists :
       stream = [NoStream EXCEPT !.pc = "reading", !.fragments = fragments]
  /\ CoreUnused
  /\ chunker = NoChunker /\ parser = NoParser /\ provider = NoProvider /\ config = NoConfig

\* await reader.read() resolves with some of the bytes that follow.
ReadSettles ==
  /\ stream.pc = "reading"
  /\ \E n \in 1..(Len(Wire(stream.fragments, 1)) - stream.pos) :
       LET chunk == SubSeq(Wire(stream.fragments, 1), stream.pos + 1, stream.pos + n)
           after == ForLines(stream.fragments, SplitLines(chunk, <<>>),
                             stream.fullResponse, stream.progress)
       IN stream' = [stream EXCEPT !.pos = @ + n,
                                   !.fullResponse = after.fullResponse,
                                   !.progress = after.progress]
  /\ UNCHANGED notStream

\* await reader.read() resolves with done: the loop is left and fullResponse
\* is returned.
ReadDone ==
  /\ stream.pc = "reading"
  /\ stream.pos = Len(Wire(stream.fragments, 1))
  /\ stream' = [stream EXCEPT !.pc = "returned"]
  /\ UNCHANGED notStream

NextStream ==
  \/ ReadSettles
  \/ ReadDone

SpecStream == InitStream /\ [][NextStream]_vars

\* The texts of the well-formed fragments among the first n, in order.
RECURSIVE WellFormed(_, _)
WellFormed(fragments, n) ==
  IF n = 0 THEN <<>>
  ELSE IF fragments[n] = "ok" THEN Append(WellFormed(fragments, n - 1), n)
  ELSE WellFormed(fragments, n - 1)

\* C29 (streaming accumulation): however the bytes are split into reads, a
\* streamed call returns the responses of all well-formed fragments in order,
\* and onProgress was called once per well-formed fragment, each time with
\* the responses of the well-formed fragments so far.
C29_StreamingAccumulation ==
  stream.pc = "returned" =>
    LET all == WellFormed(stream.fragments, Len(stream.fragments))
    IN /\ stream.fullResponse = all
       /\ Len(stream.progress) = Len(all)
       /\ \A j \in 1..Len(stream.progress) : stream.progress[j] = SubSeq(all, 1, j)

(***************************************************************************)
(* SpecConfig: aiAdapter's configuration API in any order, and the key a   *)
(* direct generate call sends                                              *)
(*                                                                         *)
(* config.provider, config.apiKey   currentConfig                          *)
(* config.stored   localStorage: the provider and the two keys, "" for a   *)
(*                 missing item (every read is getItem(..) || '')          *)
(* config.sent     the last direct call to a hosted provider: the provider,*)
(*                 the key sent and the key stored for it then             *)
(***************************************************************************)
\* The keys a user enters.
ApiKeys == {"", "key1", "key2"}

\* API_CONFIG of config/apiKeys, the development keys.
ApiConfig == [gemini |-> "devGemini", groq |-> "devGroq"]

Hosted == {"gemini", "groq"}

\* !value for an optional string
Falsy(k) == k \in {Undefined, ""}

\* provider === 'gemini' ? geminiKey : provider === 'groq' ? groqKey : undefined
KeyFor(p, st) == IF p \in Hosted THEN st[p] ELSE Undefined

\* loadConfig(): no localStorage read throws.
loadConfig(c) ==
  LET to == IF c.stored.provider = "" THEN "ollama" ELSE c.stored.provider
  IN [c EXCEPT !.provider = to, !.apiKey = KeyFor(to, c.stored)]

\* saveConfig(config): p is config.provider ("" when not given), k is
\* config.apiKey (Undefined when not given).
saveConfig(c, p, k) ==
  LET c1 == IF p # "" THEN [c EXCEPT !.stored.provider = p, !.provider = p] ELSE c
  IN IF ~Falsy(k) /\ c1.provider \in Hosted
     THEN [c1 EXCEPT !.stored[c1.provider] = k, !.apiKey = k]
     ELSE c1

\* setProvider(provider)
setProvider(c, p) == saveConfig(c, p, KeyFor(p, c.stored))

\* setApiKey(provider, apiKey)
setApiKey(c, p, k) ==
  LET c1 == IF p \in Hosted THEN [c EXCEPT !.stored[p] = k] ELSE c
  IN IF c1.provider = p THEN [c1 EXCEPT !.apiKey = k] ELSE c1

\* callGemini / callGroq, direct call: currentConfig.apiKey || getApiKey(p)
KeySent(c) == IF Falsy(c.apiKey) THEN ApiConfig[c.provider] ELSE c.apiKey

InitConfig ==
  /\ config = NoConfig
  /\ CoreUnused
  /\ chunker = NoChunker /\ parser = NoParser /\ provider = NoProvider
  /\ stream = NoStream

LoadConfigCalled ==
  /\ config' = loadConfig(config)
  /\ UNCHANGED notConfig

SetProviderCalled ==
  /\ \E p \in Providers : config' = setProvider(config, p)
  /\ UNCHANGED notConfig

SetApiKeyCalled ==
  /\ \E p \in Providers, k \in ApiKeys : config' = setApiKey(config, p, k)
  /\ UNCHANGED notConfig

SaveConfigCalled ==
  /\ \E p \in Providers \cup {""}, k \in ApiKeys \cup {Undefined} :
       config' = saveConfig(config, p, k)
  /\ UNCHANGED notConfig

\* callAI(prompt) with a hosted provider active, in development (the direct
\* call).
DirectCallMade ==
  /\ config.provider \in Hosted
  /\ config' = [config EXCEPT !.sent = [to |-> config.provider, key |-> KeySent(config),
                                        stored |-> config.stored[config.provider]]]
  /\ UNCHANGED notConfig

NextConfig ==
  \/ LoadConfigCalled
  \/ SetProviderCalled
  \/ SetApiKeyCalled
  \/ SaveConfigCalled
  \/ DirectCallMade

SpecConfig == InitConfig /\ [][NextConfig]_vars

\* C37 (provider key isolation): whenever a hosted provider is active,
\* currentConfig.apiKey is empty or is the key stored for that provider; and
\* the key a direct generate call sends to a hosted provider is the key
\* stored for that provider or its development key.
C37_ProviderKeyIsolation ==
  /\ config.provider \in Hosted =>
       (Falsy(config.apiKey) \/ config.apiKey = config.stored[config.provider])
  /\ config.sent.to \in Hosted =>
       config.sent.key \in {config.sent.stored, ApiConfig[config.sent.to]}

====
